---- MODULE Spec2Model ----
(***************************************************************************)
(* A model of the ToyLisp interpreter (src/src/toylisp.c, src/src/arena.c).*)
(*                                                                         *)
(* Memory is modelled at the granularity of allocated objects: each arena  *)
(* is the sequence of the objects allocated from it, a reference is an     *)
(* (arena, index) pair.  A machine record m carries the two arenas and the *)
(* process-wide global_env through every operation of the interpreter;     *)
(* every operation that allocates or mutates returns [v |-> value,         *)
(* m |-> machine].                                                         *)
(***************************************************************************)
EXTENDS Integers, Sequences, FiniteSets, TLC

\* ------------------------------------------------------------------ bounds
\* Frames that the forms read by the driver may add to global_env on top of
\* the frames of the bootstrap.
MaxUserFrames == 2

\* Objects the permanent arena may hold (the bootstrap allocates 136).
MaxPermanentObjects == 200

\* ------------------------------------------------------- program constants
SIZE_MAX == 2147483647

\* ------------------------------------------------------------------ values
NIL_VALUE == [type |-> "NIL"]

make_number(n) == [type |-> "NUMBER", number |-> n]

UNDEFINED_VALUE == [type |-> "UNDEFINED"]

Ref(a, i) == [arena |-> a, at |-> i]

\* ------------------------------------------------------------------ arenas
\* An operation that allocates or writes yields the set of its outcomes,
\* each a record [v |-> the value returned, m |-> the machine it leaves];
\* UNION {K(r) : r \in E} is E followed by K on each outcome r of E.
Ok(v, m) == {[v |-> v, m |-> m]}

\* arena_alloc: the new object is placed after everything allocated so far.
arena_alloc(m, a, obj) ==
    IF a = "permanent"
    THEN Ok(Ref("permanent", Len(m.permanent) + 1),
            [m EXCEPT !.permanent = Append(@, obj)])
    ELSE Ok(Ref("temporary", Len(m.temporary) + 1),
            [m EXCEPT !.temporary = Append(@, obj)])

\* Reading through a reference.  A reference into the scratch arena that
\* outlived arena_reset has arena "stale"; reading through it has no
\* defined outcome and is no case of this operator.
Deref(m, p) ==
    CASE p.arena = "permanent" -> m.permanent[p.at]
      [] p.arena = "temporary" -> m.temporary[p.at]

Store(m, p, obj) ==
    CASE p.arena = "permanent" -> [m EXCEPT !.permanent[p.at] = obj]
      [] p.arena = "temporary" -> [m EXCEPT !.temporary[p.at] = obj]

arena_strdup(m, a, s) == arena_alloc(m, a, [kind |-> "text", text |-> s])

\* ------------------------------------------------------------ constructors
make_atom(name, a, m) ==
    {[v |-> [type |-> "ATOM", atom_name |-> r.v], m |-> r.m] :
        r \in arena_strdup(m, a, name)}

make_string(s, a, m) ==
    {[v |-> [type |-> "STRING", string |-> r.v], m |-> r.m] :
        r \in arena_strdup(m, a, s)}

\* msg is the message after formatting.
make_error(a, msg, m) ==
    {[v |-> [type |-> "ERROR", err_msg |-> r.v], m |-> r.m] :
        r \in arena_strdup(m, a, msg)}

make_cons(car_, cdr_, a, m) ==
    {[v |-> [type |-> "CONS", cons |-> r.v], m |-> r.m] :
        r \in arena_alloc(m, a, [kind |-> "cons", car |-> car_, cdr |-> cdr_])}

make_closure(params, body, env, a, m) ==
    {[v |-> [type |-> "CLOSURE", closure |-> r.v], m |-> r.m] :
        r \in arena_alloc(m, a, [kind |-> "closure", params |-> params,
                                 body |-> body, env |-> env])}

make_macro(params, body, env, a, m) ==
    {[v |-> [type |-> "MACRO", macro |-> r.v], m |-> r.m] :
        r \in arena_alloc(m, a, [kind |-> "macro", params |-> params,
                                 body |-> body, env |-> env])}

\* --------------------------------------------------------------- constants
\* main() allocates "#t" and "ERR" first in the permanent arena.
TRUE_VALUE  == [type |-> "ATOM", atom_name |-> Ref("permanent", 1)]
ERROR_VALUE == [type |-> "ATOM", atom_name |-> Ref("permanent", 2)]

\* -------------------------------------------------------------- predicates
is_nil(v) == v.type = "NIL"

is_truthy(v) == v.type # "NIL"

TextOf(m, p) == Deref(m, p).text

are_equal(a, b, m) ==
    IF a.type # b.type THEN FALSE
    ELSE CASE a.type \in {"UNDEFINED", "NIL"} -> TRUE
           [] a.type = "NUMBER"    -> a.number = b.number
           [] a.type = "STRING"    -> TextOf(m, a.string) = TextOf(m, b.string)
           [] a.type = "ATOM"      -> TextOf(m, a.atom_name) = TextOf(m, b.atom_name)
           [] a.type = "CONS"      -> a.cons = b.cons
           [] a.type = "CLOSURE"   -> a.closure = b.closure
           [] a.type = "PRIMITIVE" -> a.primitive_index = b.primitive_index
           [] a.type = "MACRO"     -> a.macro = b.macro
           [] a.type = "ERROR"     -> TextOf(m, a.err_msg) = TextOf(m, b.err_msg)

\* ------------------------------------------------- lists and environments
car(p, m) == IF p.type # "CONS" THEN ERROR_VALUE ELSE Deref(m, p.cons).car

cdr(p, m) == IF p.type # "CONS" THEN ERROR_VALUE ELSE Deref(m, p.cons).cdr

make_env_pair(var, val, env, a, m) ==
    UNION {make_cons(f.v, env, a, f.m) : f \in make_cons(var, val, a, m)}

RECURSIVE find_env_frame(_, _, _)
find_env_frame(var, env, m) ==
    CASE is_nil(env) -> NIL_VALUE
      [] car(env, m).type = "CONS" /\ are_equal(car(car(env, m), m), var, m) ->
            car(env, m)
      [] OTHER -> find_env_frame(var, cdr(env, m), m)

UndefinedVariable(var, a, m) ==
    IF var.type = "ATOM"
    THEN make_error(a, "undefined variable: " \o TextOf(m, var.atom_name), m)
    ELSE make_error(a, "undefined variable", m)

\* A lookup that returns the value of the last frame of the name.
RECURSIVE find_in_envLast(_, _, _, _)
find_in_envLast(var, env, a, m) ==
    CASE is_nil(env) -> UndefinedVariable(var, a, m)
      [] are_equal(var, car(car(env, m), m), m)
         /\ is_nil(find_env_frame(var, cdr(env, m), m)) ->
            IF cdr(car(env, m), m).type = "UNDEFINED"
            THEN UndefinedVariable(var, a, m)
            ELSE Ok(cdr(car(env, m), m), m)
      [] OTHER -> find_in_envLast(var, cdr(env, m), a, m)

RECURSIVE find_in_env(_, _, _, _)
find_in_env(var, env, a, m) ==
    CASE is_nil(env) -> UndefinedVariable(var, a, m)
      [] are_equal(var, car(car(env, m), m), m) ->
            IF cdr(car(env, m), m).type = "UNDEFINED"
            THEN UndefinedVariable(var, a, m)
            ELSE Ok(cdr(car(env, m), m), m)
      [] OTHER -> find_in_env(var, cdr(env, m), a, m)

RECURSIVE bind_args(_, _, _, _, _)
bind_args(params, args, env, a, m) ==
    IF is_nil(params) THEN Ok(env, m)
    ELSE IF params.type = "CONS"
         THEN UNION {bind_args(cdr(params, m), cdr(args, m), e.v, a, e.m) :
                        e \in make_env_pair(car(params, m), car(args, m), env, a, m)}
         ELSE make_env_pair(params, args, env, a, m)

RECURSIVE list_length(_, _)
list_length(list, m) ==
    IF list.type = "CONS" THEN 1 + list_length(Deref(m, list.cons).cdr, m) ELSE 0

\* ---------------------------------------------------------------- deep copy
\* A copy that returns the value it was given.
copy_value_to_arenaShallow(v, dest, m) == Ok(v, m)

RECURSIVE copy_value_to_arena(_, _, _)
copy_value_to_arena(v, dest, m) ==
    CASE v.type \in {"NIL", "NUMBER", "PRIMITIVE"} -> Ok(v, m)
      [] v.type = "ATOM"   -> make_atom(TextOf(m, v.atom_name), dest, m)
      [] v.type = "STRING" -> make_string(TextOf(m, v.string), dest, m)
      [] v.type = "ERROR"  -> make_error(dest, TextOf(m, v.err_msg), m)
      [] v.type = "CONS"   ->
            UNION {UNION {make_cons(copied_car.v, copied_cdr.v, dest, copied_cdr.m) :
                             copied_cdr \in copy_value_to_arena(
                                 Deref(m, v.cons).cdr, dest, copied_car.m)} :
                      copied_car \in copy_value_to_arena(Deref(m, v.cons).car, dest, m)}
      [] v.type = "CLOSURE" ->
            UNION {UNION {make_closure(copied_params.v, copied_body.v,
                                       Deref(m, v.closure).env, dest, copied_body.m) :
                             copied_body \in copy_value_to_arena(
                                 Deref(m, v.closure).body, dest, copied_params.m)} :
                      copied_params \in copy_value_to_arena(
                          Deref(m, v.closure).params, dest, m)}
      [] OTHER -> Ok(ERROR_VALUE, m)

RECURSIVE is_proper_list_loop(_, _, _)
is_proper_list_loop(slow, fast, m) ==
    IF is_nil(slow) THEN TRUE
    ELSE IF slow.type # "CONS" THEN FALSE
    ELSE LET slow2 == cdr(slow, m)
             fast2 == IF fast.type # "CONS" \/ cdr(fast, m).type # "CONS"
                      THEN NIL_VALUE
                      ELSE cdr(cdr(fast, m), m)
         IN  IF ~is_nil(fast2) /\ are_equal(slow2, fast2, m)
             THEN FALSE
             ELSE is_proper_list_loop(slow2, fast2, m)

is_proper_list(list, m) == is_proper_list_loop(list, list, m)

type_name(type) ==
    CASE type = "NIL"       -> "nil"
      [] type = "NUMBER"    -> "number"
      [] type = "ATOM"      -> "atom"
      [] type = "STRING"    -> "string"
      [] type = "CONS"      -> "pair"
      [] type = "CLOSURE"   -> "closure"
      [] type = "PRIMITIVE" -> "primitive"
      [] type = "ERROR"     -> "error"
      [] type = "UNDEFINED" -> "undefined"
      [] OTHER              -> "unknown"

\* ---------------------------------------------------------- primitives table
\* Entries in table order; a Primitive value holds the 0-based index.
\* special is the verdict of is_special_form on the entry's name.
primitives == <<
    [name |-> "quote",     arity |-> 1],
    [name |-> "backquote", arity |-> 1],
    [name |-> "if",        arity |-> 3],
    [name |-> "cond",      arity |-> SIZE_MAX],
    [name |-> "and",       arity |-> SIZE_MAX],
    [name |-> "or",        arity |-> SIZE_MAX],
    [name |-> "lambda",    arity |-> SIZE_MAX],
    [name |-> "macro",     arity |-> SIZE_MAX],
    [name |-> "define",    arity |-> 2],
    [name |-> "set!",      arity |-> 2],
    [name |-> "undefine!", arity |-> 1],
    [name |-> "let*",      arity |-> 2],
    [name |-> "cons",      arity |-> 2],
    [name |-> "list",      arity |-> SIZE_MAX],
    [name |-> "car",       arity |-> 1],
    [name |-> "cdr",       arity |-> 1],
    [name |-> "reverse",   arity |-> 1],
    [name |-> "len",       arity |-> 1],
    [name |-> "mapcar",    arity |-> 2],
    [name |-> "filter",    arity |-> 2],
    [name |-> "reduce",    arity |-> SIZE_MAX],
    [name |-> "+",         arity |-> SIZE_MAX],
    [name |-> "-",         arity |-> SIZE_MAX],
    [name |-> "*",         arity |-> SIZE_MAX],
    [name |-> "/",         arity |-> SIZE_MAX],
    [name |-> "%",         arity |-> 2],
    [name |-> "int",       arity |-> 1],
    [name |-> "<",         arity |-> 2],
    [name |-> ">",         arity |-> 2],
    [name |-> "<=",        arity |-> 2],
    [name |-> ">=",        arity |-> 2],
    [name |-> "=",         arity |-> 2],
    [name |-> "eq?",       arity |-> 2],
    [name |-> "not",       arity |-> 1],
    [name |-> "pair?",     arity |-> 1],
    [name |-> "list?",     arity |-> 1],
    [name |-> "number?",   arity |-> SIZE_MAX],
    [name |-> "apply",     arity |-> 2],
    [name |-> "eval",      arity |-> 1],
    [name |-> "display",   arity |-> 1],
    [name |-> "tap",       arity |-> 2],
    [name |-> "print-memory-stats", arity |-> 0],
    [name |-> "clear",     arity |-> 0],
    [name |-> "exit",      arity |-> 0] >>

is_special_form(name) ==
    name \in {"and", "backquote", "cond", "define", "if", "lambda", "let*",
              "macro", "or", "quote", "set!", "undefine!"}

make_primitive(i) == [type |-> "PRIMITIVE", primitive_index |-> i]

\* ------------------------------------------------------- strict primitives
prim_cons(args, env, m) ==
    make_cons(car(args, m), car(cdr(args, m), m), "temporary", m)

prim_list(args, env, m) == Ok(args, m)

prim_car(args, env, m) == Ok(car(car(args, m), m), m)

prim_cdr(args, env, m) == Ok(cdr(car(args, m), m), m)

RECURSIVE reverse_loop(_, _, _)
reverse_loop(current, reversed_list, m) ==
    IF is_nil(current) THEN Ok(reversed_list, m)
    ELSE UNION {reverse_loop(cdr(current, c.m), c.v, c.m) :
                   c \in make_cons(car(current, m), reversed_list, "temporary", m)}

prim_reverse(args, env, m) ==
    LET list_to_reverse == car(args, m)
    IN  IF ~is_proper_list(list_to_reverse, m)
        THEN make_error("temporary", "reverse: the argument is not a proper list.", m)
        ELSE reverse_loop(list_to_reverse, NIL_VALUE, m)

prim_len(args, env, m) == Ok(make_number(list_length(args, m)), m)

RECURSIVE prim_is_num(_, _, _)
prim_is_num(args, env, m) ==
    IF is_nil(args) THEN Ok(TRUE_VALUE, m)
    ELSE IF car(args, m).type # "NUMBER" THEN Ok(NIL_VALUE, m)
    ELSE prim_is_num(cdr(args, m), env, m)

ExpectedNumber(op, type, m) ==
    make_error("temporary", op \o ": expected number, got " \o type_name(type), m)

\* The accumulation loop shared by +, - and *: op names the primitive.
RECURSIVE arith_loop(_, _, _, _)
arith_loop(op, n, args, m) ==
    IF is_nil(args) THEN Ok(make_number(n), m)
    ELSE LET arg == car(args, m)
         IN  IF arg.type # "NUMBER" THEN ExpectedNumber(op, arg.type, m)
             ELSE arith_loop(op,
                             CASE op = "+" -> n + arg.number
                               [] op = "-" -> n - arg.number
                               [] op = "*" -> n * arg.number,
                             cdr(args, m), m)

prim_add(args, env, m) == arith_loop("+", 0, args, m)

prim_sub(args, env, m) ==
    IF is_nil(args)
    THEN make_error("temporary", "-: requires at least one argument", m)
    ELSE LET first == car(args, m)
         IN  IF first.type # "NUMBER" THEN ExpectedNumber("-", first.type, m)
             ELSE IF is_nil(cdr(args, m)) THEN Ok(make_number(0 - first.number), m)
             ELSE arith_loop("-", first.number, cdr(args, m), m)

prim_mul(args, env, m) == arith_loop("*", 1, args, m)

\* Numbers are integers here; a quotient is modelled where it is exact.
RECURSIVE div_loop(_, _, _)
div_loop(result, args, m) ==
    IF is_nil(args) THEN Ok(make_number(result), m)
    ELSE LET current_divisor == car(args, m)
         IN  IF current_divisor.type # "NUMBER"
             THEN ExpectedNumber("/", current_divisor.type, m)
             ELSE IF current_divisor.number = 0
             THEN make_error("temporary", "/: division by zero", m)
             ELSE CASE result % current_divisor.number = 0 ->
                       div_loop(result \div current_divisor.number, cdr(args, m), m)

prim_div(args, env, m) ==
    IF is_nil(args)
    THEN make_error("temporary", "/: requires at least one argument", m)
    ELSE LET first_arg == car(args, m)
         IN  IF first_arg.type # "NUMBER" THEN ExpectedNumber("/", first_arg.type, m)
             ELSE IF is_nil(cdr(args, m))
             THEN IF first_arg.number = 0
                  THEN make_error("temporary", "/: division by zero (inverse of 0)", m)
                  ELSE CASE first_arg.number \in {1, -1} -> Ok(first_arg, m)
             ELSE div_loop(first_arg.number, cdr(args, m), m)

\* The four ordering comparisons; name is the text of the error message.
Holds(op, a, b) ==
    CASE op = "<"  -> a < b
      [] op = "<=" -> a <= b
      [] op = ">=" -> a >= b
      [] op = ">"  -> a > b

compare(name, op, args, m) ==
    LET arg1 == car(args, m)
        arg2 == car(cdr(args, m), m)
    IN  IF arg1.type # "NUMBER" \/ arg2.type # "NUMBER"
        THEN make_error("temporary", name \o ": expects numbers as arguments", m)
        ELSE Ok(IF Holds(op, arg1.number, arg2.number) THEN TRUE_VALUE ELSE NIL_VALUE, m)

prim_lt(args, env, m)  == compare(">", "<", args, m)
prim_lte(args, env, m) == compare("<=", "<=", args, m)
prim_gte(args, env, m) == compare(">=", ">=", args, m)
prim_gt(args, env, m)  == compare(">", ">", args, m)

\* = reads both arguments as numbers without a type test: of an argument
\* that is no number it compares whatever the union holds, and either answer
\* may come out.
prim_eq_num(args, env, m) ==
    LET a == car(args, m)
        b == car(cdr(args, m), m)
    IN  IF a.type = "NUMBER" /\ b.type = "NUMBER"
        THEN Ok(IF a.number = b.number THEN TRUE_VALUE ELSE NIL_VALUE, m)
        ELSE Ok(TRUE_VALUE, m) \cup Ok(NIL_VALUE, m)

prim_eq(args, env, m) ==
    Ok(IF are_equal(car(args, m), car(cdr(args, m), m), m)
       THEN TRUE_VALUE ELSE NIL_VALUE, m)

prim_is_pair(args, env, m) ==
    Ok(IF car(args, m).type = "CONS" THEN TRUE_VALUE ELSE NIL_VALUE, m)

RECURSIVE list_tail(_, _)
list_tail(list, m) == IF list.type = "CONS" THEN list_tail(cdr(list, m), m) ELSE list

prim_is_list(args, env, m) ==
    Ok(IF list_tail(car(args, m), m).type = "NIL" THEN TRUE_VALUE ELSE NIL_VALUE, m)

prim_not(args, env, m) ==
    Ok(IF is_truthy(car(args, m)) THEN NIL_VALUE ELSE TRUE_VALUE, m)

prim_quote(args, env, m) == Ok(car(args, m), m)

\* ---------------------------------------------------------------- evaluator
\* eval_expression and the primitives that call it back.  The loop of
\* eval_expression is unfolded: where the source replaces expr (and env) and
\* goes round again, the model evaluates the new expr in turn.  An evaluation
\* that does not end has no value here; the forms the model reads all end.
RECURSIVE eval_expression(_, _, _)
RECURSIVE eval_loop(_, _, _)
RECURSIVE eval_arguments(_, _, _, _)
RECURSIVE eval_list(_, _, _)
RECURSIVE call_primitive(_, _, _, _)
RECURSIVE prim_backquote(_, _, _)
RECURSIVE or_loop(_, _, _, _)
RECURSIVE and_loop(_, _, _, _)
RECURSIVE prim_cond(_, _, _)
RECURSIVE let_star_bindings(_, _, _)
RECURSIVE let_star_body(_, _, _, _)

eval_list(list, env, m) ==
    IF is_nil(list) THEN Ok(NIL_VALUE, m)
    ELSE UNION {
           IF evaluated_car.v.type = "ERROR" THEN {evaluated_car}
           ELSE UNION {
                  IF evaluated_cdr.v.type = "ERROR" THEN {evaluated_cdr}
                  ELSE make_cons(evaluated_car.v, evaluated_cdr.v, "temporary",
                                 evaluated_cdr.m) :
                  evaluated_cdr \in eval_list(cdr(list, evaluated_car.m), env,
                                              evaluated_car.m)} :
           evaluated_car \in eval_expression(car(list, m), env, m)}

prim_apply(args, env, m) ==
    LET func     == car(args, m)
        arg_list == car(cdr(args, m), m)
    IN  IF func.type = "PRIMITIVE"
        THEN call_primitive(func.primitive_index, arg_list, env, m)
        ELSE IF func.type = "CLOSURE"
        THEN UNION {eval_expression(Deref(m, func.closure).body, new_env.v, new_env.m) :
                       new_env \in bind_args(Deref(m, func.closure).params, arg_list,
                                             Deref(m, func.closure).env, "temporary", m)}
        ELSE make_error("temporary", "apply: not a function", m)

prim_eval(args, env, m) ==
    UNION {eval_expression(car(l.v, l.m), env, l.m) : l \in eval_list(args, env, m)}

\* A list case of prim_backquote that builds a new cell for every cell of
\* the template.
backquote_cdrCopies(template, expanded_car, env) ==
    UNION {UNION {
             IF expanded_cdr.v.type = "ERROR" THEN {expanded_cdr}
             ELSE make_cons(expanded_car.v, expanded_cdr.v, "temporary",
                            expanded_cdr.m) :
             expanded_cdr \in prim_backquote(cdr_args.v, env, cdr_args.m)} :
           cdr_args \in make_cons(cdr(template, expanded_car.m), NIL_VALUE,
                                  "temporary", expanded_car.m)}

\* The list case of prim_backquote, after the car of the template has been
\* expanded.
backquote_cdr(template, expanded_car, env) ==
    UNION {UNION {
             IF expanded_cdr.v.type = "ERROR" THEN {expanded_cdr}
             ELSE IF are_equal(expanded_car.v, car(template, expanded_cdr.m),
                               expanded_cdr.m)
                     /\ are_equal(expanded_cdr.v, cdr(template, expanded_cdr.m),
                                  expanded_cdr.m)
             THEN Ok(template, expanded_cdr.m)
             ELSE make_cons(expanded_car.v, expanded_cdr.v, "temporary",
                            expanded_cdr.m) :
             expanded_cdr \in prim_backquote(cdr_args.v, env, cdr_args.m)} :
           cdr_args \in make_cons(cdr(template, expanded_car.m), NIL_VALUE,
                                  "temporary", expanded_car.m)}

prim_backquote(args, env, m) ==
    LET template == car(args, m)
    IN  IF template.type # "CONS" THEN Ok(template, m)
        ELSE IF car(template, m).type = "ATOM"
                /\ TextOf(m, car(template, m).atom_name) = "comma"
        THEN IF cdr(template, m).type = "CONS" /\ is_nil(cdr(cdr(template, m), m))
             THEN eval_expression(car(cdr(template, m), m), env, m)
             ELSE make_error("temporary", "comma: forma di unquote non valida", m)
        ELSE UNION {UNION {
                      IF expanded_car.v.type = "ERROR" THEN {expanded_car}
                      ELSE backquote_cdr(template, expanded_car, env) :
                      expanded_car \in prim_backquote(car_args.v, env, car_args.m)} :
                    car_args \in make_cons(car(template, m), NIL_VALUE, "temporary", m)}

or_loop(result, args, env, m) ==
    IF is_nil(args) THEN Ok(result, m)
    ELSE UNION {IF is_truthy(r.v) THEN {r}
                ELSE or_loop(r.v, cdr(args, r.m), env, r.m) :
                r \in eval_expression(car(args, m), env, m)}

prim_or(args, env, m) == or_loop(NIL_VALUE, args, env, m)

and_loop(result, args, env, m) ==
    IF is_nil(args) THEN Ok(result, m)
    ELSE UNION {IF ~is_truthy(r.v) THEN {r}
                ELSE and_loop(r.v, cdr(args, r.m), env, r.m) :
                r \in eval_expression(car(args, m), env, m)}

prim_and(args, env, m) == and_loop(TRUE_VALUE, args, env, m)

prim_cond(args, env, m) ==
    IF is_nil(args) THEN Ok(NIL_VALUE, m)
    ELSE UNION {IF is_truthy(test.v)
                THEN eval_expression(car(cdr(car(args, test.m), test.m), test.m),
                                     env, test.m)
                ELSE prim_cond(cdr(args, test.m), env, test.m) :
                test \in eval_expression(car(car(args, m), m), env, m)}

prim_if(args, env, m) ==
    LET cond      == car(args, m)
        then_expr == car(cdr(args, m), m)
        else_expr == car(cdr(cdr(args, m), m), m)
    IN  UNION {eval_expression(IF is_truthy(test.v) THEN then_expr ELSE else_expr,
                               env, test.m) :
               test \in eval_expression(cond, env, m)}

\* A let* binding of a lambda expression whose closure keeps the
\* environment the binding was made in.
let_star_lambdaOuterEnv(var, val_expr, env, m) ==
    UNION {make_env_pair(var, closure_val.v, env, "temporary", closure_val.m) :
           closure_val \in make_closure(car(cdr(val_expr, m), m),
                                        car(cdr(cdr(val_expr, m), m), m),
                                        env, "temporary", m)}

\* A let* binding of a lambda expression: the closure is made, bound, and
\* its env is set to the environment that holds the binding.
let_star_lambda(var, val_expr, env, m) ==
    UNION {UNION {
             Ok(recursive_env.v,
                Store(recursive_env.m, closure_val.v.closure,
                      [Deref(recursive_env.m, closure_val.v.closure)
                         EXCEPT !.env = recursive_env.v])) :
             recursive_env \in make_env_pair(var, closure_val.v, env, "temporary",
                                             closure_val.m)} :
           closure_val \in make_closure(car(cdr(val_expr, m), m),
                                        car(cdr(cdr(val_expr, m), m), m),
                                        env, "temporary", m)}

\* The binding loop of let*; returns the extended environment.
let_star_bindings(bindings, env, m) ==
    IF is_nil(bindings) THEN Ok(env, m)
    ELSE LET binding  == car(bindings, m)
             var      == car(binding, m)
             val_expr == car(cdr(binding, m), m)
         IN  IF var.type = "ATOM" /\ val_expr.type = "CONS"
                /\ car(val_expr, m).type = "ATOM"
                /\ TextOf(m, car(val_expr, m).atom_name) = "lambda"
             THEN UNION {let_star_bindings(cdr(bindings, e.m), e.v, e.m) :
                         e \in let_star_lambda(var, val_expr, env, m)}
             ELSE UNION {UNION {let_star_bindings(cdr(bindings, e.m), e.v, e.m) :
                                e \in make_env_pair(var, val.v, env, "temporary", val.m)} :
                         val \in eval_expression(val_expr, env, m)}

\* The body loop of let*.
let_star_body(last_val, body, env, m) ==
    IF is_nil(body) THEN Ok(last_val, m)
    ELSE UNION {let_star_body(r.v, cdr(body, r.m), env, r.m) :
                r \in eval_expression(car(body, m), env, m)}

prim_let_star(args, env, m) ==
    UNION {let_star_body(NIL_VALUE, cdr(args, e.m), e.v, e.m) :
           e \in let_star_bindings(car(args, m), env, m)}

prim_lambda(args, env, m) ==
    make_closure(car(args, m), car(cdr(args, m), m), env, "temporary", m)

prim_macro(args, env, m) ==
    make_macro(car(args, m), car(cdr(args, m), m), env, "temporary", m)

NameOrQuestion(var, m) ==
    IF var.type = "ATOM" THEN TextOf(m, var.atom_name) ELSE "?"

\* A define that stores the closure with the environment lambda captured.
RewireClosureSkipped(perm_val, m) == m

\* perm_val.as.closure->env = global_env
RewireClosure(perm_val, m) ==
    IF perm_val.type = "CLOSURE"
    THEN Store(m, perm_val.closure,
               [Deref(m, perm_val.closure) EXCEPT !.env = m.global_env])
    ELSE m

\* cell.as.cons->cdr = val
set_cdr(cell, val, m) ==
    Store(m, cell.cons, [Deref(m, cell.cons) EXCEPT !.cdr = val])

\* The value new_val is copied to the permanent arena and written into
\* existing_frame; a closure gets global_env as its env.  The outcome's value
\* is var.
store_in_frame(var, existing_frame, new_val) ==
    UNION {UNION {Ok(var, RewireClosure(perm_val.v, m2)) :
                  m2 \in {set_cdr(existing_frame, perm_val.v, perm_val.m)}} :
           perm_val \in copy_value_to_arena(new_val.v, "permanent", new_val.m)}

\* The value new_val is copied to the permanent arena and bound to a copy of
\* var in a new first frame of global_env; a closure gets the new global_env
\* as its env.  The outcome's value is var.
store_in_new_frame(var, new_val) ==
    UNION {UNION {UNION {UNION {
             Ok(var, RewireClosure(perm_val.v, m2)) :
             m2 \in {[genv.m EXCEPT !.global_env = genv.v]}} :
             genv \in make_env_pair(perm_var.v, perm_val.v, perm_var.m.global_env,
                                    "permanent", perm_var.m)} :
             perm_var \in copy_value_to_arena(var, "permanent", perm_val.m)} :
           perm_val \in copy_value_to_arena(new_val.v, "permanent", new_val.m)}

prim_define(args, env, m) ==
    LET var            == car(args, m)
        val_expr       == car(cdr(args, m), m)
        existing_frame == find_env_frame(var, m.global_env, m)
    IN  IF ~is_nil(existing_frame)
        THEN IF cdr(existing_frame, m).type = "UNDEFINED"
             THEN UNION {IF new_val.v.type = "ERROR" THEN {new_val}
                         ELSE store_in_frame(var, existing_frame, new_val) :
                         new_val \in eval_expression(val_expr, env, m)}
             ELSE make_error("temporary",
                             "define: '" \o NameOrQuestion(var, m)
                                 \o "' already defined. Use set! to modify it", m)
        ELSE UNION {IF new_val.v.type = "ERROR" THEN {new_val}
                    ELSE store_in_new_frame(var, new_val) :
                    new_val \in eval_expression(val_expr, env, m)}

prim_set(args, env, m) ==
    LET var            == car(args, m)
        val_expr       == car(cdr(args, m), m)
        existing_frame == find_env_frame(var, m.global_env, m)
    IN  IF is_nil(existing_frame)
        THEN make_error("temporary",
                        "set!: undefined variable: " \o NameOrQuestion(var, m), m)
        ELSE UNION {IF new_val.v.type = "ERROR" THEN {new_val}
                    ELSE store_in_frame(var, existing_frame, new_val) :
                    new_val \in eval_expression(val_expr, env, m)}

\* prim_undefine unlinking the first frame of global_env instead of writing
\* Undefined into the frame of var.
prim_undefineUnlinks(args, env, m) ==
    Ok(car(args, m), [m EXCEPT !.global_env = cdr(m.global_env, m)])

\* prim_undefine without the write frame.as.cons->cdr = undefined_val.
prim_undefineWithoutWrite(args, env, m) == Ok(car(args, m), m)

prim_undefine(args, env, m) ==
    LET var == car(args, m)
    IN  IF var.type # "ATOM"
        THEN make_error("temporary", "undefine!: argument must be a symbol", m)
        ELSE LET frame == find_env_frame(var, m.global_env, m)
             IN  IF is_nil(frame)
                 THEN make_error("temporary",
                                 "undefine!: variable '" \o TextOf(m, var.atom_name)
                                     \o "' not defined", m)
                 ELSE Ok(var, set_cdr(frame, UNDEFINED_VALUE, m))

\* primitives[i].func(args, env, context).  The entries mapcar, filter,
\* reduce, %, int, display, tap, print-memory-stats, clear and exit have no
\* case: no form of the model calls them.
call_primitive(i, args, env, m) ==
    LET name == primitives[i + 1].name
    IN  CASE name = "quote"     -> prim_quote(args, env, m)
          [] name = "backquote" -> prim_backquote(args, env, m)
          [] name = "if"        -> prim_if(args, env, m)
          [] name = "cond"      -> prim_cond(args, env, m)
          [] name = "and"       -> prim_and(args, env, m)
          [] name = "or"        -> prim_or(args, env, m)
          [] name = "lambda"    -> prim_lambda(args, env, m)
          [] name = "macro"     -> prim_macro(args, env, m)
          [] name = "define"    -> prim_define(args, env, m)
          [] name = "set!"      -> prim_set(args, env, m)
          [] name = "undefine!" -> prim_undefine(args, env, m)
          [] name = "let*"      -> prim_let_star(args, env, m)
          [] name = "cons"      -> prim_cons(args, env, m)
          [] name = "list"      -> prim_list(args, env, m)
          [] name = "car"       -> prim_car(args, env, m)
          [] name = "cdr"       -> prim_cdr(args, env, m)
          [] name = "reverse"   -> prim_reverse(args, env, m)
          [] name = "len"       -> prim_len(args, env, m)
          [] name = "+"         -> prim_add(args, env, m)
          [] name = "-"         -> prim_sub(args, env, m)
          [] name = "*"         -> prim_mul(args, env, m)
          [] name = "/"         -> prim_div(args, env, m)
          [] name = "<"         -> prim_lt(args, env, m)
          [] name = ">"         -> prim_gt(args, env, m)
          [] name = "<="        -> prim_lte(args, env, m)
          [] name = ">="        -> prim_gte(args, env, m)
          [] name = "="         -> prim_eq_num(args, env, m)
          [] name = "eq?"       -> prim_eq(args, env, m)
          [] name = "not"       -> prim_not(args, env, m)
          [] name = "pair?"     -> prim_is_pair(args, env, m)
          [] name = "list?"     -> prim_is_list(args, env, m)
          [] name = "number?"   -> prim_is_num(args, env, m)
          [] name = "apply"     -> prim_apply(args, env, m)
          [] name = "eval"      -> prim_eval(args, env, m)

\* An argument loop that goes on after an argument whose value is an Error.
RECURSIVE eval_argumentsPastError(_, _, _, _)
eval_argumentsPastError(p, env, evaluated_args, m) ==
    IF is_nil(p) THEN Ok(evaluated_args.head, m)
    ELSE UNION {UNION {UNION {
           eval_argumentsPastError(cdr(p, m2), env,
                                   [head |-> IF is_nil(evaluated_args.head)
                                             THEN new_cell.v
                                             ELSE evaluated_args.head,
                                    tail |-> new_cell.v],
                                   m2) :
           m2 \in {IF is_nil(evaluated_args.head) THEN new_cell.m
                   ELSE set_cdr(evaluated_args.tail, new_cell.v, new_cell.m)}} :
           new_cell \in make_cons(evaluated_car.v, NIL_VALUE, "temporary",
                                  evaluated_car.m)} :
           evaluated_car \in eval_expression(car(p, m), env, m)}

\* The argument loop of eval_expression: evaluated_args is built front to
\* back, tail being the cell whose cdr the next cell is written into.
eval_arguments(p, env, evaluated_args, m) ==
    IF is_nil(p) THEN Ok(evaluated_args.head, m)
    ELSE UNION {
           IF evaluated_car.v.type = "ERROR" THEN {evaluated_car}
           ELSE UNION {UNION {
                  eval_arguments(cdr(p, m2), env,
                                 [head |-> IF is_nil(evaluated_args.head)
                                           THEN new_cell.v
                                           ELSE evaluated_args.head,
                                  tail |-> new_cell.v],
                                 m2) :
                  m2 \in {IF is_nil(evaluated_args.head) THEN new_cell.m
                          ELSE set_cdr(evaluated_args.tail, new_cell.v, new_cell.m)}} :
                  new_cell \in make_cons(evaluated_car.v, NIL_VALUE, "temporary",
                                         evaluated_car.m)} :
           evaluated_car \in eval_expression(car(p, m), env, m)}

ArityError(what, expected, actual, m) ==
    make_error("temporary",
               "Arity error" \o what \o " expects " \o ToString(expected)
                   \o " arguments, but got " \o ToString(actual), m)

\* A macro application that evaluates the expansion in the environment the
\* body was evaluated in.
apply_macroInMacroEnv(func, args, env, m) ==
    UNION {UNION {
       IF expanded_code.v.type = "ERROR" THEN {expanded_code}
       ELSE eval_loop(expanded_code.v, macro_env.v, expanded_code.m) :
       expanded_code \in eval_expression(Deref(m, func.macro).body,
                                         macro_env.v, macro_env.m)} :
       macro_env \in bind_args(Deref(m, func.macro).params, args,
                               Deref(m, func.macro).env, "temporary", m)}

\* if (func.type == TYPE_MACRO): the macro's body is evaluated with the
\* parameters bound to the unevaluated args, and the expansion is evaluated
\* in env.
apply_macro(func, args, env, m) ==
    LET expected == list_length(Deref(m, func.macro).params, m)
        actual   == list_length(args, m)
    IN  IF expected # actual
        THEN ArityError(": macro", expected, actual, m)
        ELSE UNION {UNION {
               IF expanded_code.v.type = "ERROR" THEN {expanded_code}
               ELSE eval_loop(expanded_code.v, env, expanded_code.m) :
               expanded_code \in eval_expression(Deref(m, func.macro).body,
                                                 macro_env.v, macro_env.m)} :
               macro_env \in bind_args(Deref(m, func.macro).params, args,
                                       Deref(m, func.macro).env, "temporary", m)}

\* if (func.type == TYPE_CLOSURE): the body is evaluated with the parameters
\* bound to evaluated_args in the closure's env.
apply_closure(func, evaluated_args, m) ==
    LET expected == list_length(Deref(m, func.closure).params, m)
        actual   == list_length(evaluated_args, m)
    IN  IF expected # actual
        THEN ArityError(": function", expected, actual, m)
        ELSE UNION {eval_loop(Deref(m, func.closure).body, new_env.v, new_env.m) :
                    new_env \in bind_args(Deref(m, func.closure).params, evaluated_args,
                                          Deref(m, func.closure).env, "temporary", m)}

\* if (func.type == TYPE_PRIMITIVE), after the arguments are evaluated.
apply_primitive(func, evaluated_args, env, m) ==
    LET prim_info == primitives[func.primitive_index + 1]
        actual    == list_length(evaluated_args, m)
    IN  IF prim_info.arity # SIZE_MAX /\ actual # prim_info.arity
        THEN ArityError(" for '" \o prim_info.name \o "':", prim_info.arity, actual, m)
        ELSE call_primitive(func.primitive_index, evaluated_args, env, m)

\* What eval_expression does with a form whose head evaluated to func.
Application(func, args, env, m) ==
    IF func.type = "MACRO"
    THEN apply_macro(func, args, env, m)
    ELSE IF func.type = "PRIMITIVE"
            /\ is_special_form(primitives[func.primitive_index + 1].name)
    THEN call_primitive(func.primitive_index, args, env, m)
    ELSE UNION {
           IF ea.v.type = "ERROR" THEN {ea}
           ELSE IF func.type = "CLOSURE" THEN apply_closure(func, ea.v, ea.m)
           ELSE IF func.type = "PRIMITIVE" THEN apply_primitive(func, ea.v, env, ea.m)
           ELSE make_error("temporary",
                           "Type error: cannot apply a non-function value.", ea.m) :
           ea \in eval_arguments(args, env,
                                 [head |-> NIL_VALUE, tail |-> NIL_VALUE], m)}

\* One pass of the while (true) loop of eval_expression; "continue" is the
\* next pass, in the same activation.
eval_loop(expr, env, m) ==
    CASE expr.type \in {"NIL", "STRING", "NUMBER"} -> Ok(expr, m)
      [] expr.type = "ATOM" -> find_in_env(expr, env, "temporary", m)
      [] expr.type = "CONS" ->
            UNION {IF func.v.type = "ERROR" THEN {func}
                   ELSE Application(func.v, cdr(expr, func.m), env, func.m) :
                   func \in eval_expression(car(expr, m), env, m)}
      [] OTHER -> make_error("temporary", "Evaluation error: unknown value type.", m)

\* A call of eval_expression: an activation that lasts from the call to the
\* return.  active counts the activations that have not returned, peak is
\* the largest count so far.
Enter(m) ==
    [m EXCEPT !.active = @ + 1,
              !.peak = IF m.active + 1 > @ THEN m.active + 1 ELSE @]

Leave(m) == [m EXCEPT !.active = @ - 1]

eval_expression(expr, env, m) ==
    {[v |-> r.v, m |-> Leave(r.m)] : r \in eval_loop(expr, env, Enter(m))}

\* ------------------------------------------------------------------- parser
\* Source text is given as its token tree: an atom, a number, a string or a
\* list of trees with an optional dotted tail.  'x, `x and ,x are written as
\* the lists (quote x), (backquote x) and (comma x) they stand for.
A(s) == [t |-> "atom", s |-> s]
N(n) == [t |-> "num", n |-> n]
S(s) == [t |-> "str", s |-> s]
L(xs) == [t |-> "list", xs |-> xs, dotted |-> FALSE]
DL(xs, tail) == [t |-> "list", xs |-> xs, dotted |-> TRUE, tail |-> tail]

RECURSIVE parse_from_current_token(_, _)
RECURSIVE parse_elements(_, _, _, _)

\* parse_list's backward loop: result = make_cons(elements[i], result).
RECURSIVE parse_list_build(_, _, _, _)
parse_list_build(elements, i, result, m) ==
    IF i = 0 THEN Ok(result, m)
    ELSE UNION {parse_list_build(elements, i - 1, c.v, c.m) :
                c \in make_cons(elements[i], result, "temporary", m)}

parse_elements(xs, i, elements, m) ==
    IF i > Len(xs) THEN Ok(elements, m)
    ELSE UNION {parse_elements(xs, i + 1, Append(elements, e.v), e.m) :
                e \in parse_from_current_token(xs[i], m)}

parse_from_current_token(tree, m) ==
    CASE tree.t = "num"  -> Ok(make_number(tree.n), m)
      [] tree.t = "str"  -> make_string(tree.s, "temporary", m)
      [] tree.t = "atom" -> make_atom(tree.s, "temporary", m)
      [] tree.t = "list" ->
            UNION {UNION {parse_list_build(es.v, Len(es.v), dotted_tail.v, dotted_tail.m) :
                          dotted_tail \in IF tree.dotted
                                          THEN parse_from_current_token(tree.tail, es.m)
                                          ELSE Ok(NIL_VALUE, es.m)} :
                   es \in parse_elements(tree.xs, 1, << >>, m)}

parse_expression(tree, m) == parse_from_current_token(tree, m)

\* --------------------------------------------------------------- bootstrap
\* The loop of main() over the primitives table; yields the machine.
RECURSIVE register_primitives(_, _)
register_primitives(i, m) ==
    IF i >= Len(primitives) THEN {m}
    ELSE UNION {UNION {register_primitives(i + 1, m2) :
                       m2 \in {[e.m EXCEPT !.global_env = e.v]}} :
                e \in UNION {make_env_pair(name.v, make_primitive(i), name.m.global_env,
                                           "permanent", name.m) :
                             name \in make_atom(primitives[i + 1].name, "permanent", m)}}

\* The machines main() may have built when it enters the REPL or the file
\* loop.
Bootstrap ==
    UNION {UNION {UNION {register_primitives(0, [g.m EXCEPT !.global_env = g.v]) :
                         g \in make_env_pair(t.v, t.v, NIL_VALUE, "permanent", e.m)} :
                  e \in make_atom("ERR", "permanent", t.m)} :
           t \in make_atom("#t", "permanent",
                           [permanent |-> << >>, temporary |-> << >>,
                            global_env |-> NIL_VALUE, active |-> 0, peak |-> 0])}

\* ------------------------------------------------------------------ printer
RECURSIVE print_value(_, _)

\* print_list's loop, after the opening parenthesis.
RECURSIVE print_list_loop(_, _)
print_list_loop(list, m) ==
    LET rest == cdr(list, m)
    IN  print_value(car(list, m), m) \o
        (CASE is_nil(rest)       -> ")"
           [] rest.type # "CONS" -> " . " \o print_value(rest, m) \o ")"
           [] OTHER              -> " " \o print_list_loop(rest, m))

print_list(list, m) == "(" \o print_list_loop(list, m)

\* Numbers of the model are integers below 10^10, which %.10lg prints in full.
print_value(v, m) ==
    CASE v.type = "NIL"       -> "()"
      [] v.type = "NUMBER"    -> ToString(v.number)
      [] v.type = "STRING"    -> "\"" \o TextOf(m, v.string) \o "\""
      [] v.type = "ATOM"      -> TextOf(m, v.atom_name)
      [] v.type = "PRIMITIVE" -> "<primitive:" \o primitives[v.primitive_index + 1].name \o ">"
      [] v.type = "CONS"      -> print_list(v, m)
      [] v.type = "CLOSURE"   -> "<closure>"
      [] v.type = "ERROR"     -> TextOf(m, v.err_msg)
      [] OTHER                -> "<ERROR: unknown type>"

\* -------------------------------------------------------------- arena_reset
\* The pointer a value carries, if it carries one.
Pointer(v) ==
    CASE v.type = "ATOM"    -> {v.atom_name}
      [] v.type = "STRING"  -> {v.string}
      [] v.type = "ERROR"   -> {v.err_msg}
      [] v.type = "CONS"    -> {v.cons}
      [] v.type = "CLOSURE" -> {v.closure}
      [] v.type = "MACRO"   -> {v.macro}
      [] OTHER              -> {}

\* The values an allocated object holds.
Fields(obj) ==
    CASE obj.kind = "cons" -> {obj.car, obj.cdr}
      [] obj.kind \in {"closure", "macro"} -> {obj.params, obj.body, obj.env}
      [] OTHER -> {}

\* A pointer into the scratch arena does not survive arena_reset: the bytes
\* it points at are handed out again by the next allocations.
Dangle(p) == IF p.arena = "temporary" THEN [p EXCEPT !.arena = "stale"] ELSE p

Invalidate(v) ==
    CASE v.type = "ATOM"    -> [v EXCEPT !.atom_name = Dangle(@)]
      [] v.type = "STRING"  -> [v EXCEPT !.string = Dangle(@)]
      [] v.type = "ERROR"   -> [v EXCEPT !.err_msg = Dangle(@)]
      [] v.type = "CONS"    -> [v EXCEPT !.cons = Dangle(@)]
      [] v.type = "CLOSURE" -> [v EXCEPT !.closure = Dangle(@)]
      [] v.type = "MACRO"   -> [v EXCEPT !.macro = Dangle(@)]
      [] OTHER              -> v

InvalidateObject(obj) ==
    CASE obj.kind = "cons" ->
            [obj EXCEPT !.car = Invalidate(@), !.cdr = Invalidate(@)]
      [] obj.kind \in {"closure", "macro"} ->
            [obj EXCEPT !.params = Invalidate(@), !.body = Invalidate(@),
                        !.env = Invalidate(@)]
      [] OTHER -> obj

\* An arena_reset that leaves the arena as it is.
arena_resetSkipped(m) == m

\* arena_reset(temporary): used = 0.  Nothing is written to the permanent
\* arena; the pointers it holds into the scratch arena now dangle.
arena_reset(m) ==
    [permanent  |-> [i \in DOMAIN m.permanent |-> InvalidateObject(m.permanent[i])],
     temporary  |-> << >>,
     global_env |-> Invalidate(m.global_env),
     active     |-> m.active,
     peak       |-> m.peak]

\* -------------------------------------------------------------------- input
\* The forms the driver may read, as token trees.
Quote(x) == L(<<A("quote"), x>>)
Backquote(x) == L(<<A("backquote"), x>>)
Comma(x) == L(<<A("comma"), x>>)
Lambda(params, body) == L(<<A("lambda"), params, body>>)
Define(name, e) == L(<<A("define"), A(name), e>>)
DivByZero == L(<<A("/"), N(1), N(0)>>)

\* (define f (lambda (x) (+ x y)))
DefineF == Define("f", Lambda(L(<<A("x")>>), L(<<A("+"), A("x"), A("y")>>)))
\* (define y 100)
DefineY == Define("y", N(100))
\* (f 1)
CallF == L(<<A("f"), N(1)>>)

\* (lambda (n) (if (= n 0) 1 (* n (fact (- n 1)))))
FactLambda ==
    Lambda(L(<<A("n")>>),
           L(<<A("if"), L(<<A("="), A("n"), N(0)>>), N(1),
               L(<<A("*"), A("n"),
                   L(<<A("fact"), L(<<A("-"), A("n"), N(1)>>)>>)>>)>>))
DefineFact == Define("fact", FactLambda)
UndefineFact == L(<<A("undefine!"), A("fact")>>)
\* (fact 3)
CallFact == L(<<A("fact"), N(3)>>)

\* (macro (a b) `(+ ,a ,b))
AddMacro ==
    L(<<A("macro"), L(<<A("a"), A("b")>>),
        Backquote(L(<<A("+"), Comma(A("a")), Comma(A("b"))>>))>>)
DefineM == Define("m", AddMacro)
\* (m 1 2)
CallM == L(<<A("m"), N(1), N(2)>>)
\* ((macro (a b) `(+ ,a ,b)) 1 2)
CallAddMacro == L(<<AddMacro, N(1), N(2)>>)

\* (define l ((lambda (y) (list (lambda (x) y))) 5))
DefineL ==
    Define("l", L(<<Lambda(L(<<A("y")>>),
                           L(<<A("list"), Lambda(L(<<A("x")>>), A("y"))>>)),
                    N(5)>>))

\* (define y (define z 2)), (define e (/ 1 0)), (if (/ 1 0) (define z 1) 2),
\* (cond ((/ 1 0) (define z 1)))
DefineYDefineZ == Define("y", Define("z", N(2)))
DefineError == Define("e", DivByZero)
IfErrorDefine == L(<<A("if"), DivByZero, Define("z", N(1)), N(2)>>)
CondErrorDefine == L(<<A("cond"), L(<<DivByZero, Define("z", N(1))>>)>>)

\* Applications with a number of arguments other than the head's arity.
QuoteTwo == L(<<A("quote"), N(1), N(2)>>)
IfOne == L(<<A("if"), N(1)>>)
CarTwo == L(<<A("car"), Quote(L(<<N(1)>>)), N(2)>>)
ConsOne == L(<<A("cons"), N(1)>>)
ClosureTwo == L(<<Lambda(L(<<A("a")>>), Define("z", A("a"))), N(1), N(2)>>)
ArityForms == {QuoteTwo, IfOne, CarTwo, ConsOne, ClosureTwo}

\* ((lambda args args) 1 2), ((lambda args args)), ((lambda (a . r) r) 1 2),
\* ((lambda (a . r) r) 1)
ListArgs == Lambda(A("args"), A("args"))
RestArgs == Lambda(DL(<<A("a")>>, A("r")), A("r"))
VariadicTwo == L(<<ListArgs, N(1), N(2)>>)
VariadicNone == L(<<ListArgs>>)
DottedTwo == L(<<RestArgs, N(1), N(2)>>)
DottedOne == L(<<RestArgs, N(1)>>)
VariadicForms == {VariadicTwo, VariadicNone, DottedTwo, DottedOne}

\* Forms with a sub-expression that evaluates to an Error.
AndError == L(<<A("and"), DivByZero, N(5)>>)
OrError == L(<<A("or"), DivByZero, N(5)>>)
LetStarBindError == L(<<A("let*"), L(<<L(<<A("x"), DivByZero>>)>>), N(7)>>)
LetStarBodyError == L(<<A("let*"), L(<<>>), DivByZero, N(7)>>)
AddError == L(<<A("+"), N(1), DivByZero>>)
ListError == L(<<A("list"), DivByZero>>)
CallError == L(<<Lambda(L(<<A("a")>>), N(7)), DivByZero>>)
\* (let* ((x (/ 1 0))) (lambda () x))
LetStarBindErrorClosure ==
    L(<<A("let*"), L(<<L(<<A("x"), DivByZero>>)>>), Lambda(L(<< >>), A("x"))>>)
ErrorForms == {AndError, OrError, LetStarBindError, LetStarBodyError,
               LetStarBindErrorClosure, AddError, ListError, CallError}

\* (if (/ 1 0) 1 2), (cond ((/ 1 0) 1))
IfError == L(<<A("if"), DivByZero, N(1), N(2)>>)
CondError == L(<<A("cond"), L(<<DivByZero, N(1)>>)>>)

\* (undefine! m)
UndefineM == L(<<A("undefine!"), A("m")>>)

\* (set! y 5), (set! ghost (define z 1)), (set! y (/ 1 0)),
\* (set! y (macro (a b) `(+ ,a ,b)))
Set(name, e) == L(<<A("set!"), A(name), e>>)
SetY == Set("y", N(5))
SetGhost == Set("ghost", Define("z", N(1)))
SetYError == Set("y", DivByZero)
SetYMacro == Set("y", AddMacro)
SetForms == {SetY, SetGhost, SetYError, SetYMacro}

\* (undefine! ghost), and the atoms fact and ghost read as forms
UndefineGhost == L(<<A("undefine!"), A("ghost")>>)
LookupFact == A("fact")
LookupGhost == A("ghost")
UndefineForms == {UndefineGhost, LookupFact, LookupGhost}

\* (len '()), (len '(1 2 3)), (len '(1 2 . 3))
LenOf(list) == L(<<A("len"), Quote(list)>>)
LenForms == {LenOf(L(<< >>)), LenOf(L(<<N(1), N(2), N(3)>>)),
             LenOf(DL(<<N(1), N(2)>>, N(3)))}

\* (car (cons a b)) and (cdr (cons a b)) for a few values a and b
ConsOperands == {N(1), Quote(A("a")), Quote(L(<< >>)), Quote(L(<<N(1), N(2)>>)),
                 Lambda(L(<<A("x")>>), A("x"))}
CarOfCons(a, b) == L(<<A("car"), L(<<A("cons"), a, b>>)>>)
CdrOfCons(a, b) == L(<<A("cdr"), L(<<A("cons"), a, b>>)>>)
ConsLawForms ==
    {CarOfCons(a, N(2)) : a \in ConsOperands}
        \cup {CdrOfCons(N(2), b) : b \in ConsOperands}

\* (car '()), (cdr '()), (car 5), (cdr 'a)
NonPairForms == {L(<<A("car"), Quote(L(<< >>))>>), L(<<A("cdr"), Quote(L(<< >>))>>),
                 L(<<A("car"), N(5)>>), L(<<A("cdr"), Quote(A("a"))>>)}

\* (define loop (lambda (n) (if (= n 0) 0 (loop (- n 1))))) and
\* (define lloop (lambda (n) (if (= n 0) 0 (let* ((k (- n 1))) (lloop k))))),
\* whose self-calls are in tail position, and the calls (loop N), (lloop N).
MaxTailCalls == 2
LoopLambda ==
    Lambda(L(<<A("n")>>),
           L(<<A("if"), L(<<A("="), A("n"), N(0)>>), N(0),
               L(<<A("loop"), L(<<A("-"), A("n"), N(1)>>)>>)>>))
LetLoopLambda ==
    Lambda(L(<<A("n")>>),
           L(<<A("if"), L(<<A("="), A("n"), N(0)>>), N(0),
               L(<<A("let*"), L(<<L(<<A("k"), L(<<A("-"), A("n"), N(1)>>)>>)>>),
                   L(<<A("lloop"), A("k")>>)>>)>>))
DefineLoop == Define("loop", LoopLambda)
DefineLetLoop == Define("lloop", LetLoopLambda)
CallLoop(n) == L(<<A("loop"), N(n)>>)
CallLetLoop(n) == L(<<A("lloop"), N(n)>>)
TailForms ==
    {DefineLoop, DefineLetLoop}
        \cup {CallLoop(n) : n \in 0..MaxTailCalls}
        \cup {CallLetLoop(n) : n \in 0..MaxTailCalls}

Forms ==
    {DefineF, DefineY, CallF, DefineFact, UndefineFact, CallFact,
     DefineM, UndefineM, CallM, CallAddMacro, DefineL, DefineYDefineZ,
     DefineError, IfErrorDefine, CondErrorDefine, IfError, CondError}
    \cup ArityForms \cup VariadicForms \cup ErrorForms \cup SetForms
    \cup UndefineForms \cup LenForms \cup ConsLawForms \cup NonPairForms

\* ------------------------------------------------------ the arena, in bytes
\* An arena is the block it lives in (header and buffer are one malloc'ed
\* block), its used and its capacity.  A pointer into the buffer is the
\* block it points into and an offset.
GROWTH_FACTOR == 2
DEFAULT_ARENA_CAPACITY == 1024

\* Sizes the interpreter asks for: sizeof(Closure), which is sizeof(Macro),
\* and the lengths strlen(s) + 1 of a few strings.
AllocSizes == {1, 13, 48, 250}

\* The initial_capacity arena_init is called with: 0, as main() does, and
\* a small capacity.
InitialCapacities == {0, 16}

\* No more than this many regions are handed out between two resets.
MaxRegions == 3

Max(a, b) == IF a > b THEN a ELSE b

arena_init(initial_capacity) ==
    [block    |-> 0,
     used     |-> 0,
     capacity |-> IF initial_capacity = 0 THEN DEFAULT_ARENA_CAPACITY
                  ELSE initial_capacity]

\* size_t aligned_size = (size + 7) & ~7;
aligned_sizeUnaligned(size) == size

aligned_size(size) == ((size + 7) \div 8) * 8

\* new_capacity = (grown_capacity > needed_capacity) ? grown_capacity
\*                                                    : needed_capacity;
new_capacityNeeded(capacity, needed_capacity) == needed_capacity

new_capacity(capacity, needed_capacity) ==
    Max(capacity * GROWTH_FACTOR, needed_capacity)

\* arena_alloc on the arena the handle refers to.  realloc either extends
\* the block in place or hands back another block and frees the old one:
\* new_block is the block it returns.  The result is the arena, the new
\* value of the caller's handle and the pointer returned.
arena_alloc_region(arena, size, new_block) ==
    LET grows == arena.used + aligned_size(size) > arena.capacity
        grown == IF grows
                 THEN [block    |-> new_block,
                       used     |-> arena.used,
                       capacity |-> new_capacity(arena.capacity,
                                                 arena.used + aligned_size(size))]
                 ELSE arena
    IN  [arena  |-> [grown EXCEPT !.used = @ + aligned_size(size)],
         handle |-> grown.block,
         ptr    |-> [block |-> grown.block, offset |-> grown.used]]

\* arena_reset: arena->used = 0;
arena_reset_used(arena) == [arena EXCEPT !.used = 0]

\* ------------------------------------------------------------- the driver
\* main(): the bootstrap, then the loop that reads a form into the scratch
\* arena, evaluates it in global_env, prints the result and resets the
\* scratch arena.
VARIABLES
    permanent,    \* the objects of the permanent arena (global_arena)
    temporary,    \* the objects of the scratch arena (eval_arena)
    global_env,   \* the process-wide global environment
    pc,           \* the statement of the loop that runs next
    form,         \* the form read in this cycle
    expr,         \* main's local expr
    result,       \* main's local result
    output,       \* what print_value wrote in this cycle
    before,       \* the machine as eval_expression found it in this cycle
    arena,        \* an arena: its block, used and capacity
    handle,       \* the caller's Arena*: the block it refers to
    regions,      \* the pointers handed out since the last reset, with
                  \* the aligned sizes of their regions
    call,         \* the last call on the arena and the arena before it
    list,         \* the argument of a call of is_proper_list
    slow,         \* its local slow
    fast,         \* its local fast
    returned      \* what the call returned: "true" or "false", "none" before

interpreter_vars ==
    <<permanent, temporary, global_env, pc, form, expr, result, output, before>>
arena_vars == <<arena, handle, regions, call>>
list_vars == <<list, slow, fast, returned>>
vars == <<interpreter_vars, arena_vars, list_vars>>

NoCall == [op |-> "arena_init", size |-> 0, arena |-> arena_init(0)]

\* main() has no eval_expression activation of its own: each evaluation of
\* the loop starts the count of activations at 0.
Machine ==
    [permanent |-> permanent, temporary |-> temporary, global_env |-> global_env,
     active |-> 0, peak |-> 0]

NoMachine ==
    [permanent |-> << >>, temporary |-> << >>, global_env |-> NIL_VALUE,
     active |-> 0, peak |-> 0]
NoForm == L(<< >>)

UserFrames(m) == list_length(m.global_env, m) - (Len(primitives) + 1)

\* No call of is_proper_list is under way.
NoList ==
    /\ list = NIL_VALUE
    /\ slow = NIL_VALUE
    /\ fast = NIL_VALUE
    /\ returned = "none"

Init ==
    /\ \E m \in Bootstrap :
           /\ permanent = m.permanent
           /\ temporary = m.temporary
           /\ global_env = m.global_env
    /\ pc = "read"
    /\ form = NoForm
    /\ expr = NIL_VALUE
    /\ result = NIL_VALUE
    /\ output = ""
    /\ before = NoMachine
    /\ arena = arena_init(0)
    /\ handle = arena.block
    /\ regions = {}
    /\ call = NoCall
    /\ NoList

\* Value expr = parse_expression(source_file, &eval_arena);
Read(f) ==
    /\ pc = "read"
    /\ \E p \in parse_expression(f, Machine) :
           /\ expr' = p.v
           /\ temporary' = p.m.temporary
    /\ form' = f
    /\ pc' = "eval"
    /\ UNCHANGED <<permanent, global_env, result, output, before>>
    /\ UNCHANGED <<arena_vars, list_vars>>

\* if (current_token_buf[0] == '\0') break;
EndOfInput ==
    /\ pc = "read"
    /\ pc' = "done"
    /\ UNCHANGED <<permanent, temporary, global_env, form, expr, result, output, before>>
    /\ UNCHANGED <<arena_vars, list_vars>>

\* Value result = eval_expression(expr, global_env, &global_context);
Eval ==
    /\ pc = "eval"
    /\ \E r \in eval_expression(expr, global_env, Machine) :
           /\ UserFrames(r.m) <= MaxUserFrames
           /\ Len(r.m.permanent) <= MaxPermanentObjects
           /\ result' = r.v
           /\ permanent' = r.m.permanent
           /\ temporary' = r.m.temporary
           /\ global_env' = r.m.global_env
    /\ before' = Machine
    /\ pc' = "print"
    /\ UNCHANGED <<form, expr, output>>
    /\ UNCHANGED <<arena_vars, list_vars>>

\* print_value(result);
PrintResult ==
    /\ pc = "print"
    /\ output' = print_value(result, Machine)
    /\ pc' = "reset"
    /\ UNCHANGED <<permanent, temporary, global_env, form, expr, result, before>>
    /\ UNCHANGED <<arena_vars, list_vars>>

\* arena_reset(eval_arena); the locals of the loop body go out of scope.
Reset ==
    /\ pc = "reset"
    /\ \E m \in {arena_reset(Machine)} :
           /\ permanent' = m.permanent
           /\ temporary' = m.temporary
           /\ global_env' = m.global_env
    /\ pc' = "read"
    /\ form' = NoForm
    /\ expr' = NIL_VALUE
    /\ result' = NIL_VALUE
    /\ output' = ""
    /\ before' = NoMachine
    /\ UNCHANGED <<arena_vars, list_vars>>

Next ==
    \/ \E f \in Forms : Read(f)
    \/ EndOfInput
    \/ Eval
    \/ PrintResult
    \/ Reset

Spec == Init /\ [][Next]_vars

\* The same loop of main() reading a file of tail-recursive definitions and
\* their calls.
ReadTail == \E f \in TailForms : Read(f)

NextTail ==
    \/ ReadTail
    \/ EndOfInput
    \/ Eval
    \/ PrintResult
    \/ Reset

SpecTail == Init /\ [][NextTail]_vars

\* A client of arena.c: arena_init, then arena_alloc and arena_reset in any
\* order.
InitArena ==
    /\ \E m \in Bootstrap :
           /\ permanent = m.permanent
           /\ temporary = m.temporary
           /\ global_env = m.global_env
    /\ pc = "done"
    /\ form = NoForm
    /\ expr = NIL_VALUE
    /\ result = NIL_VALUE
    /\ output = ""
    /\ before = NoMachine
    /\ \E initial_capacity \in InitialCapacities :
           /\ arena = arena_init(initial_capacity)
           /\ call = [op |-> "arena_init", size |-> initial_capacity,
                      arena |-> arena_init(initial_capacity)]
    /\ handle = arena.block
    /\ regions = {}
    /\ NoList

\* void* ptr = arena_alloc(&handle, size);
ArenaAlloc(size, moved) ==
    /\ Cardinality(regions) < MaxRegions
    /\ \E r \in {arena_alloc_region(arena, size,
                                     IF moved THEN arena.block + 1 ELSE arena.block)} :
           /\ arena' = r.arena
           /\ handle' = r.handle
           /\ regions' = regions \cup {[ptr |-> r.ptr, size |-> aligned_size(size)]}
    /\ call' = [op |-> "arena_alloc", size |-> size, arena |-> arena]
    /\ UNCHANGED <<interpreter_vars, list_vars>>

\* arena_reset(handle); the pointers handed out are no longer used.
ArenaReset ==
    /\ arena' = arena_reset_used(arena)
    /\ regions' = {}
    /\ call' = [op |-> "arena_reset", size |-> 0, arena |-> arena]
    /\ UNCHANGED <<handle, interpreter_vars, list_vars>>

NextArena ==
    \/ \E size \in AllocSizes : \E moved \in BOOLEAN : ArenaAlloc(size, moved)
    \/ ArenaReset

SpecArena == InitArena /\ [][NextArena]_vars

\* ------------------------------------------------------- is_proper_list
\* A call of is_proper_list on a structure of at most MaxCells cons cells,
\* whose cdr fields may lead anywhere: to Nil, to a number or to any cell, so
\* chains that end in Nil, dotted chains and chains that run into a cycle are
\* all among them.  One step is one pass of the while (true) loop.
MaxCells == 3

CellRefs == {[type |-> "CONS", cons |-> Ref("temporary", i)] : i \in 1..MaxCells}
Tails == {NIL_VALUE, make_number(5)} \cup CellRefs
Cells == {[kind |-> "cons", car |-> NIL_VALUE, cdr |-> t] : t \in Tails}

InitList ==
    /\ permanent = << >>
    /\ temporary \in [1..MaxCells -> Cells]
    /\ global_env = NIL_VALUE
    /\ pc = "loop"
    /\ form = NoForm
    /\ expr = NIL_VALUE
    /\ result = NIL_VALUE
    /\ output = ""
    /\ before = NoMachine
    /\ arena = arena_init(0)
    /\ handle = arena.block
    /\ regions = {}
    /\ call = NoCall
    /\ list \in Tails
    /\ slow = list
    /\ fast = list
    /\ returned = "none"

\* The hare that stays where it is.
advance_fastStays(f, m) == f

\* if (fast.type != TYPE_CONS || cdr(fast).type != TYPE_CONS) fast = NIL_VALUE;
\* else fast = cdr(cdr(fast));
advance_fast(f, m) ==
    IF f.type # "CONS" \/ cdr(f, m).type # "CONS"
    THEN NIL_VALUE
    ELSE cdr(cdr(f, m), m)

\* One pass of the loop of is_proper_list.
IsProperListPass ==
    /\ pc = "loop"
    /\ IF is_nil(slow)
       THEN /\ returned' = "true"
            /\ pc' = "return"
            /\ UNCHANGED <<slow, fast>>
       ELSE IF slow.type # "CONS"
       THEN /\ returned' = "false"
            /\ pc' = "return"
            /\ UNCHANGED <<slow, fast>>
       ELSE /\ slow' = cdr(slow, Machine)
            /\ fast' = advance_fast(fast, Machine)
            /\ IF ~is_nil(fast') /\ are_equal(slow', fast', Machine)
               THEN returned' = "false" /\ pc' = "return"
               ELSE returned' = returned /\ pc' = "loop"
    /\ UNCHANGED <<permanent, temporary, global_env, form, expr, result, output,
                   before, list>>
    /\ UNCHANGED arena_vars

NextList == IsProperListPass

\* The call runs until it returns.
SpecList == InitList /\ [][NextList]_vars /\ WF_vars(IsProperListPass)

\* =================================================================== properties
\* ------------------------------------------------------- reading the state
\* The frame of global name in env, or NIL_VALUE.
Lookup(name, env, m) ==
    CHOOSE frame \in {find_env_frame(var.v, env, var.m) :
                         var \in make_atom(name, "temporary", m)} : TRUE

\* v is what the parser builds for the token tree.
RECURSIVE Reads(_, _, _)
RECURSIVE ReadsList(_, _, _, _)
Reads(v, tree, m) ==
    CASE tree.t = "num"  -> v.type = "NUMBER" /\ v.number = tree.n
      [] tree.t = "atom" -> v.type = "ATOM" /\ TextOf(m, v.atom_name) = tree.s
      [] tree.t = "str"  -> v.type = "STRING" /\ TextOf(m, v.string) = tree.s
      [] tree.t = "list" -> ReadsList(v, tree, 1, m)
ReadsList(v, tree, i, m) ==
    IF i > Len(tree.xs)
    THEN IF tree.dotted THEN Reads(v, tree.tail, m) ELSE v.type = "NIL"
    ELSE /\ v.type = "CONS"
         /\ Reads(car(v, m), tree.xs[i], m)
         /\ ReadsList(cdr(v, m), tree, i + 1, m)

\* v is a closure made from the lambda expression of the token tree.
IsClosureOf(v, lambda, m) ==
    /\ v.type = "CLOSURE"
    /\ Reads(Deref(m, v.closure).params, lambda.xs[2], m)
    /\ Reads(Deref(m, v.closure).body, lambda.xs[3], m)

\* a in ma and b in mb are the same value: the same variant with the same
\* payload, compared through the pointers (the environment a closure
\* captured is not part of the comparison).
RECURSIVE SameValue(_, _, _, _)
SameValue(a, ma, b, mb) ==
    /\ a.type = b.type
    /\ CASE a.type = "NUMBER"    -> a.number = b.number
         [] a.type = "PRIMITIVE" -> a.primitive_index = b.primitive_index
         [] a.type = "ATOM"      -> TextOf(ma, a.atom_name) = TextOf(mb, b.atom_name)
         [] a.type = "STRING"    -> TextOf(ma, a.string) = TextOf(mb, b.string)
         [] a.type = "ERROR"     -> TextOf(ma, a.err_msg) = TextOf(mb, b.err_msg)
         [] a.type = "CONS"      -> /\ SameValue(car(a, ma), ma, car(b, mb), mb)
                                    /\ SameValue(cdr(a, ma), ma, cdr(b, mb), mb)
         [] a.type = "CLOSURE"   ->
               /\ SameValue(Deref(ma, a.closure).params, ma,
                            Deref(mb, b.closure).params, mb)
               /\ SameValue(Deref(ma, a.closure).body, ma,
                            Deref(mb, b.closure).body, mb)
         [] a.type = "MACRO"     ->
               /\ SameValue(Deref(ma, a.macro).params, ma,
                            Deref(mb, b.macro).params, mb)
               /\ SameValue(Deref(ma, a.macro).body, ma,
                            Deref(mb, b.macro).body, mb)
         [] OTHER -> TRUE

\* The pointers reachable from a set of pointers through car, cdr and the
\* params, body and env of closures and macros.  A dangling pointer is
\* reachable and leads nowhere.
Successors(p, m) ==
    IF p.arena = "stale" THEN {}
    ELSE UNION {Pointer(v) : v \in Fields(Deref(m, p))}

RECURSIVE Reach(_, _, _)
Reach(seen, frontier, m) ==
    IF frontier = {} THEN seen
    ELSE Reach(seen \cup frontier,
               UNION {Successors(p, m) : p \in frontier} \ (seen \cup frontier),
               m)

ReachableFromGlobalEnv == Reach({}, Pointer(global_env), Machine)

\* The evaluation of this cycle has returned and nothing has been reset.
Evaluated == pc = "print"

IsDivisionByZero(v, m) ==
    v.type = "ERROR" /\ TextOf(m, v.err_msg) = "/: division by zero"

\* ----------------------------------------------------------------------- C1
\* C1: right after each reset of the scratch arena, every object reachable
\* from global_env (through car, cdr and the params, body and env of every
\* reachable closure) is allocated in the permanent arena.
C1_ReachableFromGlobalEnvIsPermanent ==
    pc = "read" => \A p \in ReachableFromGlobalEnv : p.arena = "permanent"

\* ----------------------------------------------------------------------- C2
\* f is bound to the closure of DefineF and y to 100, and y's frame was
\* allocated after that closure was stored, i.e. y was defined later.
FDefinedThenY(m) ==
    LET ff == Lookup("f", m.global_env, m)
        fy == Lookup("y", m.global_env, m)
    IN  /\ ff.type = "CONS" /\ fy.type = "CONS"
        /\ IsClosureOf(cdr(ff, m), DefineF.xs[3], m)
        /\ cdr(fy, m) = make_number(100)
        /\ fy.cons.at > cdr(ff, m).closure.at

\* C2: after (define f (lambda (x) (+ x y))) followed by (define y 100),
\* the call (f 1) evaluates to 101.
C2_LateGlobalBinding ==
    (Evaluated /\ form = CallF /\ FDefinedThenY(before))
        => result = make_number(101)

\* ----------------------------------------------------------------------- C3
IsDefineLambda(f) ==
    /\ f.t = "list" /\ Len(f.xs) = 3
    /\ f.xs[1] = A("define") /\ f.xs[2].t = "atom"
    /\ f.xs[3].t = "list" /\ Len(f.xs[3].xs) = 3 /\ f.xs[3].xs[1] = A("lambda")

\* The closure stored for name captures an environment in which name's
\* own frame is bound to that closure.
CapturesItself(name, m) ==
    LET frame  == Lookup(name, m.global_env, m)
        stored == cdr(frame, m)
    IN  /\ frame.type = "CONS"
        /\ stored.type = "CLOSURE"
        /\ LET inner == Lookup(name, Deref(m, stored.closure).env, m)
           IN  inner = frame /\ cdr(inner, m) = stored

FactIsBound(m) ==
    LET frame == Lookup("fact", m.global_env, m)
    IN  frame.type = "CONS" /\ IsClosureOf(cdr(frame, m), FactLambda, m)

C4_DefinedMacroIsUsable ==
    Evaluated =>
        /\ (form = DefineM /\ result.type # "ERROR")
               => cdr(Lookup("m", global_env, Machine), Machine).type = "MACRO"
        /\ (form = CallM /\ Lookup("m", before.global_env, before).type = "CONS")
               => result = make_number(3)

\* ----------------------------------------------------------------------- C5
\* The number of formal parameters of a lambda expression with a proper
\* parameter list.
IsLambda(t) ==
    /\ t.t = "list" /\ Len(t.xs) = 3 /\ t.xs[1] = A("lambda")
    /\ t.xs[2].t = "list" /\ ~t.xs[2].dotted

\* The entries of the primitives table a name has.
TableEntries(name) == {i \in DOMAIN primitives : primitives[i].name = name}

\* The head of the application f is a function of k parameters, k finite:
\* an entry of the primitives table (no form rebinds the name of one) or a
\* closure made on the spot.
HeadHasArity(f, k) ==
    /\ f.t = "list" /\ Len(f.xs) >= 1
    /\ \/ /\ f.xs[1].t = "atom"
          /\ \E i \in TableEntries(f.xs[1].s) :
                 primitives[i].arity = k /\ k # SIZE_MAX
       \/ IsLambda(f.xs[1]) /\ Len(f.xs[1].xs[2].xs) = k

IsArityError(v, k, n, m) ==
    /\ v.type = "ERROR"
    /\ \E what \in {": function", ": macro"}
                  \cup {" for '" \o primitives[i].name \o "':" : i \in DOMAIN primitives} :
           TextOf(m, v.err_msg) =
               "Arity error" \o what \o " expects " \o ToString(k)
                   \o " arguments, but got " \o ToString(n)

\* C5: an application whose head has a finite arity k (an entry of the
\* primitives table, strict or special form, or a closure of k parameters)
\* and that passes a number of arguments other than k returns an arity
\* Error, and the function does not run: the globals are as before.
C5_ArityEnforced ==
    \A k \in 0..3 :
        (Evaluated /\ HeadHasArity(form, k) /\ Len(form.xs) - 1 # k)
            => /\ IsArityError(result, k, Len(form.xs) - 1, Machine)
               /\ global_env = before.global_env
               /\ permanent = before.permanent

\* ----------------------------------------------------------------------- C6
\* C6: a closure whose parameter list is a bare atom takes any number of
\* arguments and binds the atom to the list of all of them; a parameter
\* list ending in a dotted atom binds that atom to the remaining arguments.
C6_VariadicClosures ==
    Evaluated =>
        /\ form = VariadicTwo  => Reads(result, L(<<N(1), N(2)>>), Machine)
        /\ form = VariadicNone => result = NIL_VALUE
        /\ form = DottedTwo    => Reads(result, L(<<N(2)>>), Machine)
        /\ form = DottedOne    => result = NIL_VALUE

\* ----------------------------------------------------------------------- C7
\* C7: when a sub-expression of a form evaluates to an Error, the form
\* evaluates to that same Error, whatever the enclosing form is (and, or, a
\* let* binding expression, a non-final let* body expression, an argument
\* of a call).
C7_ErrorPropagates ==
    (Evaluated /\ form \in ErrorForms) => IsDivisionByZero(result, Machine)

\* ----------------------------------------------------------------------- C8
\* C8: an Error in the test position of if or of a cond clause is the
\* result of the form, and the then-branch or clause expression is not
\* evaluated (the define in it adds no frame to global_env).
C8_ErrorInTestPropagates ==
    (Evaluated /\ form \in {IfError, CondError, IfErrorDefine, CondErrorDefine})
        => /\ IsDivisionByZero(result, Machine)
           /\ global_env = before.global_env

\* ----------------------------------------------------------------------- C9
\* Some frame of the environment env binds an Error value.
RECURSIVE HasErrorFrame(_, _)
HasErrorFrame(env, m) ==
    IF env.type # "CONS" \/ env.cons.arena = "stale" THEN FALSE
    ELSE \/ /\ car(env, m).type = "CONS"
            /\ car(env, m).cons.arena # "stale"
            /\ cdr(car(env, m), m).type = "ERROR"
         \/ HasErrorFrame(cdr(env, m), m)

\* The environments of the state: global_env and the environment captured
\* by every closure and macro record of either arena.
Environments ==
    {global_env}
        \cup {permanent[i].env : i \in {j \in DOMAIN permanent :
                                           permanent[j].kind \in {"closure", "macro"}}}
        \cup {temporary[i].env : i \in {j \in DOMAIN temporary :
                                           temporary[j].kind \in {"closure", "macro"}}}

\* C9: in every reachable state no frame of global_env and no frame of a
\* local environment (built by a closure or macro application, apply or
\* let*) binds an Error value.
C9_NoErrorInFrames ==
    \A env \in Environments : ~HasErrorFrame(env, Machine)

\* ---------------------------------------------------------------------- C10
IsDefine(f) ==
    /\ f.t = "list" /\ Len(f.xs) = 3
    /\ f.xs[1] = A("define") /\ f.xs[2].t = "atom"

\* C10: define on a name with no frame in global_env evaluates the
\* expression and, when that is no Error, prepends exactly one frame binding
\* the name to a deep copy of the value and returns the name; define on a
\* name whose frame holds a live value returns a redefinition Error, does
\* not evaluate the expression and leaves global_env unchanged.
C10_Define ==
    (Evaluated /\ IsDefine(form)) =>
        LET name     == form.xs[2].s
            existing == Lookup(name, before.global_env, before)
            val_expr == car(cdr(cdr(expr, before), before), before)
        IN  \A new_val \in eval_expression(val_expr, before.global_env, before) :
            IF is_nil(existing)
            THEN IF new_val.v.type = "ERROR"
                 THEN /\ SameValue(result, Machine, new_val.v, new_val.m)
                      /\ global_env = before.global_env
                 ELSE /\ Reads(result, A(name), Machine)
                      /\ global_env.type = "CONS"
                      /\ cdr(global_env, Machine) = new_val.m.global_env
                      /\ Reads(car(car(global_env, Machine), Machine), A(name), Machine)
                      /\ SameValue(cdr(car(global_env, Machine), Machine), Machine,
                                   new_val.v, new_val.m)
            ELSE cdr(existing, before).type # "UNDEFINED"
                     => /\ result.type = "ERROR"
                        /\ TextOf(Machine, result.err_msg) =
                               "define: '" \o name \o "' already defined. Use set! to modify it"
                        /\ global_env = before.global_env
                        /\ permanent = before.permanent

\* ---------------------------------------------------------------------- C11
\* The frames of the environment env, first to last.
RECURSIVE FrameSeq(_, _)
FrameSeq(env, m) ==
    IF env.type # "CONS" THEN << >>
    ELSE <<car(env, m)>> \o FrameSeq(cdr(env, m), m)

\* Between ma and mb the frames of env are the same cells in the same
\* order, and each of them but frame has the name and the value it had.
OtherFramesUnchanged(env, frame, ma, mb) ==
    /\ FrameSeq(env, ma) = FrameSeq(env, mb)
    /\ LET frames == FrameSeq(env, ma)
       IN  \A i \in DOMAIN frames :
               (frames[i].type = "CONS" /\ frames[i] # frame)
                   => Deref(ma, frames[i].cons) = Deref(mb, frames[i].cons)

\* Every value a lookup of name in global_env returns is the value v of mv.
LooksUp(name, v, mv) ==
    \A var \in make_atom(name, "temporary", Machine) :
        \A r \in find_in_env(var.v, global_env, "temporary", var.m) :
            SameValue(r.v, r.m, v, mv)

\* The define of this cycle found the frame of its name holding Undefined.
RevivingDefine ==
    /\ Evaluated /\ IsDefine(form)
    /\ LET existing == Lookup(form.xs[2].s, before.global_env, before)
       IN  existing.type = "CONS" /\ cdr(existing, before).type = "UNDEFINED"

\* C11: a define on a name whose global frame holds Undefined, whose
\* expression evaluates to a value that is no Error, writes that value into
\* the same frame: global_env has the frames it had, in the same order,
\* every other frame is as it was, and a lookup of the name returns the new
\* value.
C11_RevivalInPlace ==
    RevivingDefine =>
        LET name     == form.xs[2].s
            existing == Lookup(name, before.global_env, before)
            val_expr == car(cdr(cdr(expr, before), before), before)
        IN  \A new_val \in eval_expression(val_expr, before.global_env, before) :
                new_val.v.type # "ERROR" =>
                    /\ global_env = new_val.m.global_env
                    /\ OtherFramesUnchanged(global_env, existing, new_val.m, Machine)
                    /\ car(existing, Machine) = car(existing, before)
                    /\ SameValue(cdr(existing, Machine), Machine, new_val.v, new_val.m)
                    /\ LooksUp(name, new_val.v, new_val.m)

\* The same, of the defines whose expression does not evaluate to a Macro.
C11_RevivalInPlaceButMacro ==
    (RevivingDefine /\ form # DefineM) => C11_RevivalInPlace

\* A define has revived the Undefined frame of fact with a closure.
C11_FactRevived ==
    /\ RevivingDefine /\ form = DefineFact
    /\ result.type = "ATOM"
    /\ cdr(Lookup("fact", global_env, Machine), Machine).type = "CLOSURE"

\* ---------------------------------------------------------------------- C12
IsSet(f) ==
    /\ f.t = "list" /\ Len(f.xs) = 3
    /\ f.xs[1] = A("set!") /\ f.xs[2].t = "atom"

\* C12: set! on a name with no frame in global_env returns an Error, does
\* not evaluate the expression and leaves global_env as it was; set! on a
\* name with a frame evaluates the expression and, when that is no Error,
\* writes a deep copy of the value, made in the permanent arena, into that
\* frame and no other, global_env keeping its frames and their order; when
\* the expression yields an Error the frame keeps the value it had.
C12_Set ==
    (Evaluated /\ IsSet(form)) =>
        LET name     == form.xs[2].s
            existing == Lookup(name, before.global_env, before)
            val_expr == car(cdr(cdr(expr, before), before), before)
        IN  IF is_nil(existing)
            THEN /\ result.type = "ERROR"
                 /\ TextOf(Machine, result.err_msg) = "set!: undefined variable: " \o name
                 /\ global_env = before.global_env
                 /\ permanent = before.permanent
            ELSE \A new_val \in eval_expression(val_expr, before.global_env, before) :
                     /\ global_env = new_val.m.global_env
                     /\ OtherFramesUnchanged(global_env, existing, new_val.m, Machine)
                     /\ car(existing, Machine) = car(existing, before)
                     /\ IF new_val.v.type = "ERROR"
                        THEN /\ SameValue(result, Machine, new_val.v, new_val.m)
                             /\ cdr(existing, Machine) = cdr(existing, before)
                        ELSE /\ SameValue(cdr(existing, Machine), Machine,
                                          new_val.v, new_val.m)
                             /\ \A ptr \in Pointer(cdr(existing, Machine)) :
                                    ptr.arena = "permanent"

\* The same, of every set! but the one whose expression evaluates to a Macro.
C12_SetButMacro ==
    form # SetYMacro => C12_Set

\* ---------------------------------------------------------------------- C13
IsUndefine(f) ==
    /\ f.t = "list" /\ Len(f.xs) = 2
    /\ f.xs[1] = A("undefine!") /\ f.xs[2].t = "atom"

IsUndefinedVariable(v, name, m) ==
    v.type = "ERROR" /\ TextOf(m, v.err_msg) = "undefined variable: " \o name

\* Every lookup of name in env returns the Error "undefined variable: name".
LookupFails(name, env) ==
    \A var \in make_atom(name, "temporary", Machine) :
        \A r \in find_in_env(var.v, env, "temporary", var.m) :
            IsUndefinedVariable(r.v, name, r.m)

\* The frame of name in m holds Undefined, or name has no frame.
Unbound(name, m) ==
    LET frame == Lookup(name, m.global_env, m)
    IN  is_nil(frame) \/ cdr(frame, m).type = "UNDEFINED"

C14_LenCountsCells ==
    (Evaluated /\ form \in LenForms)
        => result = make_number(Len(form.xs[2].xs[2].xs))

\* ---------------------------------------------------------------------- C15
\* The value the operand tree of a cons law form evaluates to.
IsOperand(v, tree, m) ==
    CASE tree.t = "num" -> v = make_number(tree.n)
      [] tree.xs[1] = A("quote") -> Reads(v, tree.xs[2], m)
      [] tree.xs[1] = A("lambda") -> IsClosureOf(v, tree, m)

\* C15: (car (cons a b)) is a and (cdr (cons a b)) is b, and car or cdr of
\* a value that is no pair returns a value of variant Error.
C15_CarCdr ==
    Evaluated =>
        /\ \A a \in ConsOperands :
               /\ form = CarOfCons(a, N(2)) => IsOperand(result, a, Machine)
               /\ form = CdrOfCons(N(2), a) => IsOperand(result, a, Machine)
        /\ form \in NonPairForms => result.type = "ERROR"

\* The laws alone.
C15_ConsLaws ==
    (Evaluated /\ form \notin NonPairForms) => C15_CarCdr

\* ---------------------------------------------------------------------- C16
\* The peaks of simultaneously active eval_expression activations the
\* evaluation of the form f may reach, f read into an empty scratch arena
\* with the globals of m.
PeakOf(f, m) ==
    {r.m.peak : r \in UNION {eval_expression(p.v, m.global_env, p.m) :
                             p \in parse_expression(f, [m EXCEPT !.temporary = << >>])}}

\* name is bound to the closure of the lambda expression.
BoundToClosureOf(name, lambda, m) ==
    LET frame == Lookup(name, m.global_env, m)
    IN  frame.type = "CONS" /\ IsClosureOf(cdr(frame, m), lambda, m)

\* The evaluation of f in m has no more simultaneously active activations
\* than the evaluation of g.
NoDeeperThan(f, g, m) ==
    \A d \in PeakOf(f, m) : \A b \in PeakOf(g, m) : d <= b

\* C16: the number of simultaneously active eval_expression activations
\* while (loop N) is evaluated does not grow with N: for every N >= 1 it is
\* no more than for (loop 1), the call that makes one tail call; the same
\* of lloop, whose tail call ends a let* body.
C16_TailCallsBounded ==
    Evaluated =>
        \A n \in 1..MaxTailCalls :
            /\ (form = CallLoop(n) /\ BoundToClosureOf("loop", LoopLambda, before))
                   => NoDeeperThan(form, CallLoop(1), before)
            /\ (form = CallLetLoop(n)
                    /\ BoundToClosureOf("lloop", LetLoopLambda, before))
                   => NoDeeperThan(form, CallLetLoop(1), before)

\* ---------------------------------------------------------------------- C17
\* C17: every pointer handed out by arena_alloc since the last reset, and
\* the caller's handle, refer to the block the arena lives in now, also
\* after a growth that relocated the block.
C17_GrowthSafety ==
    /\ handle = arena.block
    /\ \A r \in regions : r.ptr.block = arena.block

\* ---------------------------------------------------------------------- C18
\* n rounded up to a multiple of 8.
RoundUp8(n) == CHOOSE a \in n..(n + 7) : a % 8 = 0

Disjoint(r1, r2) ==
    \/ r1.ptr.offset + r1.size <= r2.ptr.offset
    \/ r2.ptr.offset + r2.size <= r1.ptr.offset

\* C18: after any sequence of arena_alloc and arena_reset calls,
\* used <= capacity, used is a multiple of 8, no call has decreased
\* capacity, the regions handed out since the last reset do not overlap,
\* the region of an arena_alloc starts at the used of before the call and
\* spans the size rounded up to a multiple of 8, and arena_reset sets used
\* to 0 and leaves capacity as it was.
C18_ArenaInvariant ==
    /\ arena.used <= arena.capacity
    /\ arena.used % 8 = 0
    /\ arena.capacity >= call.arena.capacity
    /\ \A r1, r2 \in regions : r1 # r2 => Disjoint(r1, r2)
    /\ \A r \in regions : r.ptr.offset + r.size <= arena.used
    /\ call.op = "arena_alloc" =>
           \E r \in regions : /\ r.ptr.offset = call.arena.used
                              /\ r.size = RoundUp8(call.size)
    /\ call.op = "arena_reset" =>
           arena.used = 0 /\ arena.capacity = call.arena.capacity

\* A third region has been handed out by a call that grew the arena.
C18_ThreeRegionsAfterGrowth ==
    /\ call.op = "arena_alloc"
    /\ Cardinality(regions) = 3
    /\ arena.capacity > call.arena.capacity

\* ---------------------------------------------------------------------- C19
\* C19: arena_alloc(n), a being n rounded up to a multiple of 8, leaves
\* capacity unchanged when used + a <= capacity and otherwise sets it to
\* max(2 * capacity, used + a); the caller's handle refers to the arena,
\* moved or not; used increases by a.
C19_GrowthLaw ==
    call.op = "arena_alloc" =>
        LET a == RoundUp8(call.size)
        IN  /\ arena.used = call.arena.used + a
            /\ arena.capacity =
                   IF call.arena.used + a <= call.arena.capacity
                   THEN call.arena.capacity
                   ELSE Max(2 * call.arena.capacity, call.arena.used + a)
            /\ handle = arena.block

\* An arena_alloc has grown the arena to twice its capacity, more than the
\* call needed, and realloc has moved the block.
C19_DoubledAndMoved ==
    /\ call.op = "arena_alloc"
    /\ arena.capacity = 2 * call.arena.capacity
    /\ arena.capacity > call.arena.used + RoundUp8(call.size)
    /\ arena.block # call.arena.block

\* ---------------------------------------------------------------------- C20
\* How many times the token tree mentions define, set! or undefine!.
RECURSIVE Mentions(_)
RECURSIVE MentionsIn(_, _)
Mentions(tree) ==
    CASE tree.t = "atom" -> IF tree.s \in {"define", "set!", "undefine!"} THEN 1 ELSE 0
      [] tree.t = "list" ->
            MentionsIn(tree.xs, 1) + (IF tree.dotted THEN Mentions(tree.tail) ELSE 0)
      [] OTHER -> 0
MentionsIn(xs, i) ==
    IF i > Len(xs) THEN 0 ELSE Mentions(xs[i]) + MentionsIn(xs, i + 1)

\* The frames global_env had before the evaluation that are not, cell for
\* cell, what they were.
ChangedFrames ==
    LET frames == FrameSeq(before.global_env, before)
    IN  {i \in DOMAIN frames :
             Deref(before, frames[i].cons) # Deref(Machine, frames[i].cons)}

\* The frames global_env had are still there, in the same order.
SameFrames ==
    FrameSeq(before.global_env, before) = FrameSeq(before.global_env, Machine)

\* The value of one frame at most has been rewritten.
OneFrameRewritten ==
    /\ global_env = before.global_env
    /\ SameFrames
    /\ Cardinality(ChangedFrames) <= 1
    /\ LET frames == FrameSeq(before.global_env, before)
       IN  \A i \in ChangedFrames :
               car(frames[i], Machine) = car(frames[i], before)

\* Exactly one frame has been prepended.
OneFramePrepended ==
    /\ global_env.type = "CONS"
    /\ global_env # before.global_env
    /\ cdr(global_env, Machine) = before.global_env
    /\ car(global_env, Machine).type = "CONS"
    /\ SameFrames
    /\ ChangedFrames = {}

C21_CycleOrder ==
    [][/\ pc = "read"  => pc' \in {"eval", "done"}
       /\ pc = "eval"  => pc' = "print" /\ output' = "" /\ temporary' # << >>
       /\ pc = "print" => pc' = "reset" /\ output' = print_value(result, Machine)
                              /\ temporary' = temporary
       /\ pc = "reset" => pc' = "read" /\ output # "" /\ temporary' = << >>
       /\ pc # "reset" => Len(temporary') >= Len(temporary)
       /\ Len(permanent') >= Len(permanent)]_vars

\* The result of a form has been printed and the scratch arena, which holds
\* the form, is about to be reset.
C21_PrintedBeforeReset ==
    /\ pc = "reset"
    /\ output # ""
    /\ temporary # << >>
    /\ form # NoForm

\* ====================================================== local environments
\* A file of forms about macros, argument evaluation, lookup, backquote and
\* let*, read by the same loop of main().
Macro(params, body) == L(<<A("macro"), params, body>>)
LetStar(bindings, body) == L(<<A("let*"), L(bindings), body>>)
Bind(name, e) == L(<<A(name), e>>)
SetTo(name, e) == L(<<A("set!"), A(name), e>>)

\* (let* ((x 1) (m (macro () 'x))) (let* ((x 2)) (m)))
MacroCallerEnv ==
    LetStar(<<Bind("x", N(1)), Bind("m", Macro(L(<< >>), Quote(A("x"))))>>,
            LetStar(<<Bind("x", N(2))>>, L(<<A("m")>>)))
\* (let* ((x 1) (m (macro (a) x))) (let* ((x 2)) (m (/ 1 0))))
MacroCapturedEnv ==
    LetStar(<<Bind("x", N(1)), Bind("m", Macro(L(<<A("a")>>), A("x")))>>,
            LetStar(<<Bind("x", N(2))>>, L(<<A("m"), DivByZero>>)))
\* ((macro (a) (list 'quote a)) (+ 1 2))
MacroUnevaluated ==
    L(<<Macro(L(<<A("a")>>), L(<<A("list"), Quote(A("quote")), A("a")>>)),
        L(<<A("+"), N(1), N(2)>>)>>)
\* ((macro (a) a) (+ 1 2))
MacroExpansionEvaluated ==
    L(<<Macro(L(<<A("a")>>), A("a")), L(<<A("+"), N(1), N(2)>>)>>)
\* ((macro (a) (/ 1 0)) (define z 1))
MacroBodyError ==
    L(<<Macro(L(<<A("a")>>), DivByZero), Define("z", N(1))>>)
\* ((macro (a) '(define z 1)) 5)
MacroExpandsToDefine ==
    L(<<Macro(L(<<A("a")>>), Quote(Define("z", N(1)))), N(5)>>)

MacroForms ==
    {MacroCallerEnv, MacroCapturedEnv, MacroUnevaluated, MacroExpansionEvaluated,
     MacroBodyError, MacroExpandsToDefine}

\* (list (/ 1 0) ghost)
ListErrorGhost == L(<<A("list"), DivByZero, A("ghost")>>)
\* (list ghost (/ 1 0))
ListGhostError == L(<<A("list"), A("ghost"), DivByZero>>)
\* (+ 1 (/ 1 0) (define z 1))
AddErrorDefine == L(<<A("+"), N(1), DivByZero, Define("z", N(1))>>)
\* ((lambda (a b) (define z 1)) (/ 1 0) (define w 2))
ClosureErrorDefine ==
    L(<<Lambda(L(<<A("a"), A("b")>>), Define("z", N(1))), DivByZero,
        Define("w", N(2))>>)
\* (ghost (define z 1))
GhostHead == L(<<A("ghost"), Define("z", N(1))>>)
\* ((/ 1 0) (define z 1))
ErrorHead == L(<<DivByZero, Define("z", N(1))>>)
\* (quote (define z 1))
QuoteDefine == Quote(Define("z", N(1)))
\* (if 1 2 (define z 1))
IfDefine == L(<<A("if"), N(1), N(2), Define("z", N(1))>>)
\* (list (set! y 1) y)
ListSetYThenY == L(<<A("list"), SetTo("y", N(1)), A("y")>>)
\* (list y (set! y 2))
ListYThenSetY == L(<<A("list"), A("y"), SetTo("y", N(2))>>)
\* (let* ((x 1) (f (lambda (a) a))) (let* ((x 2)) (f x)))
ArgumentInCallerEnv ==
    LetStar(<<Bind("x", N(1)), Bind("f", Lambda(L(<<A("a")>>), A("a")))>>,
            LetStar(<<Bind("x", N(2))>>, L(<<A("f"), A("x")>>)))

ArgumentForms ==
    {ListErrorGhost, ListGhostError, AddErrorDefine, ClosureErrorDefine,
     GhostHead, ErrorHead, QuoteDefine, IfDefine, DefineY, ListSetYThenY,
     ListYThenSetY, ArgumentInCallerEnv}

\* ((lambda (y) y) 5)
ParameterShadows == L(<<Lambda(L(<<A("y")>>), A("y")), N(5)>>)
\* (let* ((y 7)) y)
LetStarShadows == LetStar(<<Bind("y", N(7))>>, A("y"))
\* (let* ((y 7) (y 8)) y)
LetStarShadowsLetStar == LetStar(<<Bind("y", N(7)), Bind("y", N(8))>>, A("y"))
\* ((lambda (y) (let* ((y 9)) y)) 5)
LetStarShadowsParameter ==
    L(<<Lambda(L(<<A("y")>>), LetStar(<<Bind("y", N(9))>>, A("y"))), N(5)>>)
\* ((lambda (y) (let* ((x 9)) y)) 5)
ParameterBehindLetStar ==
    L(<<Lambda(L(<<A("y")>>), LetStar(<<Bind("x", N(9))>>, A("y"))), N(5)>>)
\* ((lambda (a a) a) 1 2)
ParameterShadowsParameter ==
    L(<<Lambda(L(<<A("a"), A("a")>>), A("a")), N(1), N(2)>>)
\* (let* ((car 7)) car)
LetStarShadowsPrimitive == LetStar(<<Bind("car", N(7))>>, A("car"))
\* y
LookupY == A("y")

LookupForms ==
    {ParameterShadows, LetStarShadows, LetStarShadowsLetStar,
     LetStarShadowsParameter, ParameterBehindLetStar, ParameterShadowsParameter,
     LetStarShadowsPrimitive, LookupY}

Sum(a, b) == L(<<A("+"), N(a), N(b)>>)
\* `(1 ,(+ 2 3) 4)
BackquoteSum == Backquote(L(<<N(1), Comma(Sum(2, 3)), N(4)>>))
\* `(1 2 3)
BackquoteList == Backquote(L(<<N(1), N(2), N(3)>>))
\* `((1 2) (x . y))
BackquoteNested == Backquote(L(<<L(<<N(1), N(2)>>), DL(<<A("x")>>, A("y"))>>))
\* `x
BackquoteAtom == Backquote(A("x"))
\* `,(+ 1 2)
BackquoteComma == Backquote(Comma(Sum(1, 2)))
\* `(1 . ,(+ 1 2))
BackquoteCdrComma == Backquote(DL(<<N(1)>>, Comma(Sum(1, 2))))
\* `((1 ,(+ 1 1)) 3)
BackquoteNestedComma == Backquote(L(<<L(<<N(1), Comma(Sum(1, 1))>>), N(3)>>))
\* `((1 2) ,(+ 1 2))
BackquoteShares == Backquote(L(<<L(<<N(1), N(2)>>), Comma(Sum(1, 2))>>))
\* `(1 ,(/ 1 0) 4)
BackquoteError == Backquote(L(<<N(1), Comma(DivByZero), N(4)>>))
\* `(1 ,ghost)
BackquoteGhost == Backquote(L(<<N(1), Comma(A("ghost"))>>))
\* `(1 (comma) 4)
BackquoteCommaNone == Backquote(L(<<N(1), L(<<A("comma")>>), N(4)>>))
\* `(1 (comma 1 2) 4)
BackquoteCommaTwo == Backquote(L(<<N(1), L(<<A("comma"), N(1), N(2)>>), N(4)>>))

\* The templates with no comma form in them.
PlainBackquoteForms == {BackquoteList, BackquoteNested, BackquoteAtom}

BackquoteForms ==
    PlainBackquoteForms
        \cup {BackquoteSum, BackquoteComma, BackquoteCdrComma, BackquoteNestedComma,
              BackquoteShares, BackquoteError, BackquoteGhost, BackquoteCommaNone,
              BackquoteCommaTwo}

\* (let* ((x 10) (y (+ x 1))) (* x y))
LetStarSequential ==
    LetStar(<<Bind("x", N(10)), Bind("y", L(<<A("+"), A("x"), N(1)>>))>>,
            L(<<A("*"), A("x"), A("y")>>))
\* (let* ((x 1) (x (+ x 1))) x)
LetStarRebinds ==
    LetStar(<<Bind("x", N(1)), Bind("x", L(<<A("+"), A("x"), N(1)>>))>>, A("x"))
\* (let* ((x 1)))
LetStarEmptyBody == L(<<A("let*"), L(<<Bind("x", N(1))>>)>>)
\* (let* () 5)
LetStarNoBindings == LetStar(<< >>, N(5))
\* (let* ((x 1)) 2 3 x)
LetStarLastBody == L(<<A("let*"), L(<<Bind("x", N(1))>>), N(2), N(3), A("x")>>)
\* (lambda (n) (if (= n 0) 0 (f (- n 1))))
CountDown ==
    Lambda(L(<<A("n")>>),
           L(<<A("if"), L(<<A("="), A("n"), N(0)>>), N(0),
               L(<<A("f"), L(<<A("-"), A("n"), N(1)>>)>>)>>))
\* (let* ((f (lambda (n) (if (= n 0) 0 (f (- n 1)))))) (f 2))
LetStarRecursive == LetStar(<<Bind("f", CountDown)>>, L(<<A("f"), N(2)>>))
\* (let* ((f (lambda (n) (if (= n 0) 0 (f (- n 1)))))) f)
LetStarClosure == LetStar(<<Bind("f", CountDown)>>, A("f"))
\* (let* ((x 1) (f (lambda () x)) (x 2)) (f))
LetStarClosureSeesEarlier ==
    LetStar(<<Bind("x", N(1)), Bind("f", Lambda(L(<< >>), A("x"))),
              Bind("x", N(2))>>, L(<<A("f")>>))

LetStarForms ==
    {LetStarSequential, LetStarRebinds, LetStarEmptyBody, LetStarNoBindings,
     LetStarLastBody, LetStarRecursive, LetStarClosure, LetStarClosureSeesEarlier}

\* car
PrimitiveCar == A("car")
\* "s"
StringS == S("s")
\* '(a "s" (1 . 2) ())
QuoteData == Quote(L(<<A("a"), S("s"), DL(<<N(1)>>, N(2)), L(<< >>)>>))
\* (list (lambda (x . r) (car x)) "s" car)
ListClosure ==
    L(<<A("list"), Lambda(DL(<<A("x")>>, A("r")), L(<<A("car"), A("x")>>)),
        S("s"), A("car")>>)
\* ((lambda (a) (lambda (x) (list a "s"))) 5)
ClosureInClosure ==
    L(<<Lambda(L(<<A("a")>>),
               Lambda(L(<<A("x")>>), L(<<A("list"), A("a"), S("s")>>))), N(5)>>)

CopyForms == {PrimitiveCar, StringS, QuoteData, ListClosure, ClosureInClosure}

\* (define x (define x 1))
DefineXDefineX == Define("x", Define("x", N(1)))
\* (undefine! y)
UndefineY == L(<<A("undefine!"), A("y")>>)

\* (lambda (x) (+ x a))
AddA == Lambda(L(<<A("x")>>), L(<<A("+"), A("x"), A("a")>>))
\* ((lambda (a) (lambda (x) (+ x a))) 5)
MakeAddA == L(<<Lambda(L(<<A("a")>>), AddA), N(5)>>)
\* (let* ((a 3)) (lambda (x) (+ x a)))
LetAddA == LetStar(<<Bind("a", N(3))>>, AddA)
\* (((lambda (a) (lambda (x) (+ x a))) 5) 1)
CallMakeAddA == L(<<MakeAddA, N(1)>>)
\* (define g ((lambda (a) (lambda (x) (+ x a))) 5))
DefineG == Define("g", MakeAddA)
\* (define g (let* ((a 3)) (lambda (x) (+ x a))))
DefineGLetStar == Define("g", LetAddA)
\* (set! y ((lambda (a) (lambda (x) (+ x a))) 5))
SetYMakeAddA == SetTo("y", MakeAddA)
\* (g 1)
CallG == L(<<A("g"), N(1)>>)
\* (y 1)
CallY == L(<<A("y"), N(1)>>)

ClosureForms ==
    {CallMakeAddA, DefineG, DefineGLetStar, DefineY, SetYMakeAddA, CallG, CallY}

GlobalForms == {DefineXDefineX, UndefineY}

LocalForms ==
    MacroForms \cup ArgumentForms \cup LookupForms \cup BackquoteForms
        \cup LetStarForms \cup CopyForms \cup GlobalForms

ReadLocal == \E f \in LocalForms : Read(f)

NextLocal ==
    \/ ReadLocal
    \/ EndOfInput
    \/ Eval
    \/ PrintResult
    \/ Reset

SpecLocal == Init /\ [][NextLocal]_vars

\* The same loop of main() reading a file of forms that bind closures made
\* inside a call or a let* to global names, and call them.
ReadClosure == \E f \in ClosureForms : Read(f)

NextClosure ==
    \/ ReadClosure
    \/ EndOfInput
    \/ Eval
    \/ PrintResult
    \/ Reset

SpecClosure == Init /\ [][NextClosure]_vars

\* print_value has written the result of form f.
Printed(f) == pc = "reset" /\ form = f

NoEffect == global_env = before.global_env /\ permanent = before.permanent

\* The value name is bound to in the global environment of m.
ValueOf(name, m) == cdr(Lookup(name, m.global_env, m), m)

LookupNames == {"y", "z", "car", "ghost"}

\* The value of the first frame of frames whose name is name, Undefined
\* when no frame has the name.
FirstValue(name, frames, m) ==
    LET matching == {i \in DOMAIN frames :
                        /\ car(frames[i], m).type = "ATOM"
                        /\ TextOf(m, car(frames[i], m).atom_name) = name}
    IN  IF matching = {} THEN UNDEFINED_VALUE
        ELSE cdr(frames[CHOOSE i \in matching : \A j \in matching : i <= j], m)

\* Every lookup of name in env returns the value of the first frame of that
\* name, or the Error for a name with no frame or with an Undefined one.
LooksUpFirst(name, env, m) ==
    LET first == FirstValue(name, FrameSeq(env, m), m)
    IN  \A var \in make_atom(name, "temporary", m) :
            \A r \in find_in_env(var.v, env, "temporary", var.m) :
                IF first.type = "UNDEFINED"
                THEN IsUndefinedVariable(r.v, name, r.m)
                ELSE r.v = first

\* Extending global_env by a frame for name prepends one frame: the tail of
\* the new environment is global_env itself, no object that existed is
\* written, the name is looked up in the new frame and every other name as
\* before.
ExtendPrepends(name) ==
    \A var \in make_atom(name, "temporary", Machine) :
        \A e \in make_env_pair(var.v, make_number(42), global_env, "temporary", var.m) :
            /\ cdr(e.v, e.m) = global_env
            /\ car(car(e.v, e.m), e.m) = var.v
            /\ cdr(car(e.v, e.m), e.m) = make_number(42)
            /\ e.m.permanent = permanent
            /\ e.m.global_env = global_env
            /\ \A i \in DOMAIN var.m.temporary : e.m.temporary[i] = var.m.temporary[i]
            /\ Len(FrameSeq(e.v, e.m)) = Len(FrameSeq(global_env, Machine)) + 1
            /\ \A r \in find_in_env(var.v, e.v, "temporary", e.m) :
                   r.v = make_number(42)
            /\ \A other \in LookupNames \ {name} :
                   LooksUpFirst(other, e.v, e.m)

Template == car(cdr(expr, Machine), Machine)

CapturesOwnBinding(v, name, m) ==
    LET env == Deref(m, v.closure).env
    IN  /\ env.type = "CONS"
        /\ car(env, m).type = "CONS"
        /\ car(car(env, m), m).type = "ATOM"
        /\ TextOf(m, car(car(env, m), m).atom_name) = name
        /\ cdr(car(env, m), m) = v

Arenas == {"permanent", "temporary"}

\* v is built from Nil, Number, Primitive, Atom, String, Error, Cons and
\* Closure.
RECURSIVE IsCopyable(_, _)
IsCopyable(v, m) ==
    CASE v.type \in {"NIL", "NUMBER", "PRIMITIVE", "ATOM", "STRING", "ERROR"} -> TRUE
      [] v.type = "CONS" -> IsCopyable(car(v, m), m) /\ IsCopyable(cdr(v, m), m)
      [] v.type = "CLOSURE" -> /\ IsCopyable(Deref(m, v.closure).params, m)
                               /\ IsCopyable(Deref(m, v.closure).body, m)
      [] OTHER -> FALSE

\* The texts, cells and closure records v is made of.
RECURSIVE Allocations(_, _)
Allocations(v, m) ==
    CASE v.type \in {"ATOM", "STRING", "ERROR"} -> 1
      [] v.type = "CONS" -> 1 + Allocations(car(v, m), m) + Allocations(cdr(v, m), m)
      [] v.type = "CLOSURE" -> 1 + Allocations(Deref(m, v.closure).params, m)
                                 + Allocations(Deref(m, v.closure).body, m)
      [] OTHER -> 0

\* p was allocated in dest after m.
Fresh(p, dest, m) == p.arena = dest /\ p.at > Len(m[dest])

\* c in mc is a deep copy of v in m, newly allocated in dest, a closure
\* keeping the env of the original.
RECURSIVE IsCopy(_, _, _, _, _)
IsCopy(v, c, dest, m, mc) ==
    /\ c.type = v.type
    /\ CASE v.type \in {"NIL", "NUMBER", "PRIMITIVE"} -> c = v
         [] v.type = "ATOM" -> /\ Fresh(c.atom_name, dest, m)
                               /\ TextOf(mc, c.atom_name) = TextOf(m, v.atom_name)
         [] v.type = "STRING" -> /\ Fresh(c.string, dest, m)
                                 /\ TextOf(mc, c.string) = TextOf(m, v.string)
         [] v.type = "ERROR" -> /\ Fresh(c.err_msg, dest, m)
                                /\ TextOf(mc, c.err_msg) = TextOf(m, v.err_msg)
         [] v.type = "CONS" -> /\ Fresh(c.cons, dest, m)
                               /\ IsCopy(car(v, m), car(c, mc), dest, m, mc)
                               /\ IsCopy(cdr(v, m), cdr(c, mc), dest, m, mc)
         [] v.type = "CLOSURE" ->
               /\ Fresh(c.closure, dest, m)
               /\ IsCopy(Deref(m, v.closure).params, Deref(mc, c.closure).params,
                         dest, m, mc)
               /\ IsCopy(Deref(m, v.closure).body, Deref(mc, c.closure).body,
                         dest, m, mc)
               /\ Deref(mc, c.closure).env = Deref(m, v.closure).env
         [] OTHER -> FALSE

\* Every object of m is in mc as it was.
Kept(m, mc) ==
    /\ mc.global_env = m.global_env
    /\ \A a \in Arenas : \A i \in DOMAIN m[a] : mc[a][i] = m[a][i]

RECURSIVE ReachesNil(_, _, _)
ReachesNil(v, k, m) ==
    IF is_nil(v) THEN TRUE
    ELSE IF v.type # "CONS" \/ k = 0 THEN FALSE
    ELSE ReachesNil(cdr(v, m), k - 1, m)

\* The cdr chain from v comes back to a cell it has passed.
RECURSIVE Revisits(_, _, _)
Revisits(v, seen, m) ==
    IF v.type # "CONS" THEN FALSE
    ELSE IF v.cons \in seen THEN TRUE
    ELSE Revisits(cdr(v, m), seen \cup {v.cons}, m)

\* C28: is_proper_list returns on every structure of finitely many cons
\* cells, one whose cdr chain is cyclic included; it returns true exactly
\* when the cdr chain from its argument reaches Nil, and false when the
\* chain ends in a value that is neither a cons nor Nil or revisits a cell.
C28_IsProperList ==
    /\ <>(pc = "return")
    /\ [](pc = "return" =>
            /\ returned = "true" <=> ReachesNil(list, MaxCells, Machine)
            /\ returned = "false" <=> ~ReachesNil(list, MaxCells, Machine)
            /\ Revisits(list, {}, Machine) => returned = "false"
            /\ (returned = "true") = is_proper_list(list, Machine))

\* The call has returned false on a chain that runs through one cell into a
\* cycle of two.
C28_CyclicChainRejected ==
    /\ pc = "return"
    /\ returned = "false"
    /\ Revisits(list, {}, Machine)
    /\ list.type = "CONS"
    /\ cdr(cdr(cdr(list, Machine), Machine), Machine) = cdr(list, Machine)
    /\ cdr(list, Machine) # list

\* ---------------------------------------------------------------------- C29
\* The names of the frames of env, from its head.
FrameNames(env, m) ==
    LET frames == FrameSeq(env, m)
    IN  [i \in DOMAIN frames |-> TextOf(m, car(frames[i], m).atom_name)]

\* C29: global_env holds at most one frame for each name, whatever forms
\* have been evaluated, a define whose value expression defines the same
\* name included; and an evaluation never leaves global_env with fewer
\* frames than it had (undefine! removes none).
C29_OneFramePerName ==
    LET names == FrameNames(global_env, Machine)
    IN  /\ \A i, j \in DOMAIN names : names[i] = names[j] => i = j
        /\ Evaluated =>
               Len(names) >= Len(FrameSeq(before.global_env, before))

\* ---------------------------------------------------------------------- C30
\* The form is a define or a set! of a name.
BindsName(f) ==
    /\ f.t = "list"
    /\ Len(f.xs) = 3
    /\ f.xs[1] \in {A("define"), A("set!")}
    /\ f.xs[2].t = "atom"

\* name is bound in global_env to a closure of the lambda expression AddA.
BoundToAddA(name, m) ==
    /\ ~Unbound(name, m)
    /\ IsClosureOf(ValueOf(name, m), AddA, m)

====
